---- MODULE Spec2Model ----
(***************************************************************************)
(* Verification model of the Defects4J mutation / repair pipeline scripts. *)
(*                                                                         *)
(* One run of one script is one behaviour: Init chooses the script (prog), *)
(* its command line and the files it finds on disk; the actions are the    *)
(* steps of that script.  External commands (defects4j checkout, compile,  *)
(* export, mutation, test) are steps whose exit code and output are chosen *)
(* by the environment.                                                     *)
(***************************************************************************)
EXTENDS Integers, Sequences, FiniteSets, TLC

(* ---------------------------------------------------------------- bounds *)
MaxBugs == 2
\* largest --jobs value tried
MaxJobs == 2
\* largest count an external tool reports, largest count stored in a file
MaxCount == 1

VARIABLES
    prog,       \* the script that runs
    buglist,    \* main: where the bug ids come from: "args" (--bugs or bug_id),
                \* "file" (active-bugs.csv) or "nofile" (active-bugs.csv is missing)
    bugs,       \* main: the bug ids to process, in order
    jobs,       \* main: args.jobs
    pc,         \* main: where the driver is
    cur,        \* main: index of the sequential loop into bugs
    summ,       \* disk: logs/<project>-<bug>/{major,pit}_summary.csv
    summ0,      \* summ as it was when the run started
    wdir,       \* disk: d4j_work/<project>-<bug>-fixed exists
    wpc,        \* per bug: where its process_one_bug / process_bug call is
    wres,       \* per bug: the value the worker returned
    wloc,       \* per bug: the worker's local variables
    calls,      \* per bug: the external commands run for it, with exit codes
    all_rows,   \* main: rows collected so far
    outcsv,     \* disk: results/<project>_summary.csv or <project>_apr_summary.csv
    logs,       \* disk: the bug folders under logs/ with mutants.log and kill.csv
    acc,        \* reporting scripts: what has been computed so far
    reports,    \* disk: the CSV tables a reporting script writes, by name
    xport       \* export_dev_patches: the projects left, --force, the checkout
                \* directories and .diff files on disk, the commands run

vars == <<prog, buglist, bugs, jobs, pc, cur, summ, summ0, wdir, wpc, wres, wloc, calls,
          all_rows, outcsv, logs, acc, reports, xport>>

\* what the two drivers never change
reportvars == <<buglist, logs, acc, reports, xport>>

(* ------------------------------------------------------------ data types *)
BugIds == 1..MaxBugs
Engines == {"MAJOR", "PIT"}

\* Python's None / a present value
None == <<>>
Some(x) == <<x>>

\* a CSV file: absent, or a header line followed by data rows
Absent == [exists |-> FALSE, rows |-> <<>>]
FileOf(rs) == [exists |-> TRUE, rows |-> rs]

\* one summary row: engine, project (fixed), bug, mutants_total, killed, survived
SummaryRow(e, b, t, k, s) ==
    [engine |-> e, bug |-> b, total |-> t, killed |-> k, survived |-> s]

Max(a, b) == IF a >= b THEN a ELSE b

(* -------------------------------------------------- load_existing_summaries *)
\* _read_single: the first data row of the file, None when the file is
\* missing or has no data row
ReadSingle(file) ==
    IF ~file.exists THEN None
    ELSE IF file.rows = <<>> THEN None
    ELSE Some(file.rows[1])

\* load_existing_summaries that never finds a bug done
load_existing_summaries_never(dir) == None

\* load_existing_summaries that takes one stored summary for a finished bug
load_existing_summaries_either(dir) ==
    LET major_row == ReadSingle(dir["MAJOR"])
        pit_row   == ReadSingle(dir["PIT"])
    IN  IF major_row # None \/ pit_row # None
        THEN Some(major_row \o pit_row)
        ELSE None

\* the two stored rows when both engines have one, else None
load_existing_summaries(dir) ==
    LET major_row == ReadSingle(dir["MAJOR"])
        pit_row   == ReadSingle(dir["PIT"])
    IN  IF major_row # None /\ pit_row # None
        THEN Some(<<major_row[1], pit_row[1]>>)
        ELSE None

(* ------------------------------------------------------ run_major, run_pit *)
\* What "defects4j mutation -r major" leaves behind: its exit code, the
\* "Mutants generated:" / "Mutants killed:" numbers of its stdout (None when
\* the line is missing) and kill.csv (None, or its row count and the number of
\* rows whose status is killed / timeout / memoryerror).
MajorReports ==
    [rc : {0, 1},
     gen : {None} \cup {Some(n) : n \in 0..MaxCount},
     kill : {None} \cup {Some(n) : n \in 0..MaxCount},
     killfile : {None} \cup
                {Some([n |-> nk[1], k |-> nk[2]]) : nk \in
                    {x \in (0..MaxCount) \X (0..MaxCount) : x[2] <= x[1]}}]

\* run_major with survived = total - killed, not clamped at 0
MajorCounts_unclamped(rep) ==
    LET useFile == rep.killfile # None /\ (rep.gen = None \/ rep.kill = None)
        total   == IF useFile THEN rep.killfile[1].n
                   ELSE IF rep.gen # None THEN rep.gen[1] ELSE 0
        killed  == IF useFile THEN rep.killfile[1].k
                   ELSE IF rep.kill # None THEN rep.kill[1] ELSE 0
    IN  <<total, killed, total - killed>>

\* (total, killed, survived) as run_major computes them
MajorCounts(rep) ==
    LET total0  == IF rep.gen # None THEN rep.gen[1] ELSE 0
        killed0 == IF rep.kill # None THEN rep.kill[1] ELSE 0
        useFile == rep.killfile # None /\ (rep.gen = None \/ rep.kill = None)
        total   == IF useFile THEN rep.killfile[1].n ELSE total0
        killed  == IF useFile THEN rep.killfile[1].k ELSE killed0
    IN  <<total, killed, Max(0, total - killed)>>

\* What "defects4j mutation -r pit" leaves behind: exit code, the first
\* existing mutations.csv (None, or its row count and killed-row count) and
\* the stdout numbers.
PitReports ==
    [rc : {0, 1},
     gen : {None} \cup {Some(n) : n \in 0..MaxCount},
     kill : {None} \cup {Some(n) : n \in 0..MaxCount},
     found : {None} \cup
             {Some([n |-> nk[1], k |-> nk[2]]) : nk \in
                 {x \in (0..MaxCount) \X (0..MaxCount) : x[2] <= x[1]}}]

\* run_pit that reads only the stdout lines, never the report
PitCounts_stdout_only(rep) ==
    LET total  == IF rep.gen # None /\ rep.kill # None THEN rep.gen[1] ELSE 0
        killed == IF rep.gen # None /\ rep.kill # None THEN rep.kill[1] ELSE 0
    IN  <<total, killed, Max(0, total - killed)>>

\* (total, killed, survived) as run_pit computes them
PitCounts(rep) ==
    LET total  == IF rep.found # None THEN rep.found[1].n
                  ELSE IF rep.gen # None /\ rep.kill # None THEN rep.gen[1]
                  ELSE 0
        killed == IF rep.found # None THEN rep.found[1].k
                  ELSE IF rep.gen # None /\ rep.kill # None THEN rep.kill[1]
                  ELSE 0
    IN  <<total, killed, Max(0, total - killed)>>

(* ------------------------------------------------------- worker bookkeeping *)
Requested == {bugs[i] : i \in 1..Len(bugs)}

\* One call of the worker function is known by the position of its bug in
\* bugs; wpc, wres, wloc and calls are kept per position, the files on disk
\* (summ, wdir) per bug id.  Both range over 1..MaxBugs.
Tasks == 1..Len(bugs)

\* the worker calls that have begun and not yet ended
Running == {b \in BugIds : wpc[b] \notin {"queued", "returned", "raised", "collected"}}

\* run(): one external command was executed for bug b and exited with rc
Ran(b, cmd, rc) ==
    calls' = [calls EXCEPT ![b] = Append(@, [cmd |-> cmd, rc |-> rc])]

Goto(b, label) == wpc' = [wpc EXCEPT ![b] = label]

\* the worker function ends by an exception
Raise(b) == wpc' = [wpc EXCEPT ![b] = "raised"]

(* ------------------------------- run_one_project_both_final: process_one_bug *)
\* process_one_bug, step 1: the skip check, before any other work
process_one_bug(b) ==
    LET existing == load_existing_summaries(summ[bugs[b]])
    IN  IF existing # None
        THEN /\ wres' = [wres EXCEPT ![b] = existing[1]]
             /\ Goto(b, "returned")
        ELSE /\ Goto(b, "checkout_major")
             /\ UNCHANGED wres

\* checkout_rev: the external checkout runs only when the target directory
\* does not exist; a failed checkout (rc # 0) raises and may leave a partial
\* directory behind (left)
checkout_rev(b, rc, left) ==
    /\ prog = "mutation"
    /\ wpc[b] \in {"checkout_major", "checkout_pit"}
    /\ LET next == IF wpc[b] = "checkout_major" THEN "compile_major"
                   ELSE "compile_pit"
       IN  IF wdir[bugs[b]]
           THEN /\ rc = 0 /\ left
                /\ Goto(b, next)
                /\ UNCHANGED <<wdir, calls>>
           ELSE /\ Ran(b, "checkout", rc)
                /\ IF rc = 0
                   THEN left /\ wdir' = [wdir EXCEPT ![bugs[b]] = TRUE] /\ Goto(b, next)
                   ELSE wdir' = [wdir EXCEPT ![bugs[b]] = left] /\ Raise(b)
    /\ UNCHANGED <<reportvars, prog, bugs, jobs, pc, cur, summ, summ0, wres, wloc, all_rows, outcsv>>

\* run_major / run_pit, first command: defects4j compile with check=True
compile(b, rc) ==
    /\ prog = "mutation"
    /\ wpc[b] \in {"compile_major", "compile_pit"}
    /\ Ran(b, "compile", rc)
    /\ IF rc # 0 THEN Raise(b)
       ELSE IF wpc[b] = "compile_major" THEN Goto(b, "mutate_major")
       ELSE Goto(b, "mutate_pit")
    /\ UNCHANGED <<reportvars, prog, bugs, jobs, pc, cur, summ, summ0, wdir, wres, wloc, all_rows, outcsv>>

\* the row run_major writes and returns
MajorRow(b, rep) ==
    LET c == MajorCounts(rep) IN SummaryRow("MAJOR", b, c[1], c[2], c[3])

\* run_major after compile: the mutation command (check=False), the counts,
\* major_summary.csv written with one data row
run_major(b, rep) ==
    /\ prog = "mutation"
    /\ wpc[b] = "mutate_major"
    /\ Ran(b, "mutation", rep.rc)
    /\ summ' = [summ EXCEPT ![bugs[b]]["MAJOR"] = FileOf(<<MajorRow(bugs[b], rep)>>)]
    /\ wloc' = [wloc EXCEPT ![b] = <<MajorRow(bugs[b], rep)>>]
    /\ Goto(b, "checkout_pit")
    /\ UNCHANGED <<reportvars, prog, bugs, jobs, pc, cur, summ0, wdir, wres, all_rows, outcsv>>

\* the row run_pit writes and returns
PitRow(b, rep) ==
    LET c == PitCounts(rep) IN SummaryRow("PIT", b, c[1], c[2], c[3])

\* run_pit after compile: export classes.relevant (check=False), the mutation
\* command (check=False), the counts, pit_summary.csv written; then
\* process_one_bug returns the two rows
run_pit(b, rep) ==
    /\ prog = "mutation"
    /\ wpc[b] = "mutate_pit"
    /\ calls' = [calls EXCEPT ![b] =
                    @ \o <<[cmd |-> "export", rc |-> 0],
                           [cmd |-> "mutation", rc |-> rep.rc]>>]
    /\ summ' = [summ EXCEPT ![bugs[b]]["PIT"] = FileOf(<<PitRow(bugs[b], rep)>>)]
    /\ wres' = [wres EXCEPT ![b] = wloc[b] \o <<PitRow(bugs[b], rep)>>]
    /\ Goto(b, "returned")
    /\ UNCHANGED <<reportvars, prog, bugs, jobs, pc, cur, summ0, wdir, wloc, all_rows, outcsv>>

(* ------------------------------------------ run_one_project_both_final: main *)
\* main without --bugs and bug_id calls list_bugs, which raises
\* FileNotFoundError when the project has no active-bugs.csv; nothing catches
\* it and main ends by the exception
MutListBugsMissing ==
    /\ prog = "mutation"
    /\ pc = "main"
    /\ buglist = "nofile"
    /\ pc' = "aborted"
    /\ UNCHANGED <<reportvars, prog, bugs, jobs, cur, summ, summ0, wdir, wpc, wres, wloc,
                   calls, all_rows, outcsv>>

\* main chooses the sequential loop or the process pool
MutDispatch ==
    /\ prog = "mutation"
    /\ pc = "main"
    /\ buglist # "nofile"
    /\ pc' = IF jobs <= 1 \/ Len(bugs) = 1 THEN "seq" ELSE "pool"
    /\ UNCHANGED <<reportvars, prog, bugs, jobs, cur, summ, summ0, wdir, wpc, wres, wloc,
                   calls, all_rows, outcsv>>

\* sequential loop: process_one_bug is called for the next bug
MutSeqCall ==
    /\ prog = "mutation"
    /\ pc = "seq"
    /\ cur <= Len(bugs)
    /\ wpc[cur] = "queued"
    /\ process_one_bug(cur)
    /\ UNCHANGED <<reportvars, prog, bugs, jobs, pc, cur, summ, summ0, wdir, wloc, calls,
                   all_rows, outcsv>>

\* sequential loop: the call returned, its rows are collected
MutSeqReturn ==
    /\ prog = "mutation"
    /\ pc = "seq"
    /\ cur <= Len(bugs)
    /\ wpc[cur] = "returned"
    /\ all_rows' = all_rows \o wres[cur]
    /\ Goto(cur, "collected")
    /\ cur' = cur + 1
    /\ UNCHANGED <<reportvars, prog, bugs, jobs, pc, summ, summ0, wdir, wres, wloc, calls, outcsv>>

\* sequential loop: the call raised; nothing catches it, main ends by the
\* exception before the combined file is written
MutSeqRaise ==
    /\ prog = "mutation"
    /\ pc = "seq"
    /\ cur <= Len(bugs)
    /\ wpc[cur] = "raised"
    /\ pc' = "aborted"
    /\ UNCHANGED <<reportvars, prog, bugs, jobs, cur, summ, summ0, wdir, wpc, wres, wloc,
                   calls, all_rows, outcsv>>

\* pool: a free worker process takes a submitted bug
MutPoolStart(b) ==
    /\ prog = "mutation"
    /\ pc = "pool"
    /\ b \in Tasks
    /\ wpc[b] = "queued"
    /\ Cardinality(Running) < Max(1, jobs)
    /\ process_one_bug(b)
    /\ UNCHANGED <<reportvars, prog, bugs, jobs, pc, cur, summ, summ0, wdir, wloc, calls,
                   all_rows, outcsv>>

\* pool: as_completed yields a future; its rows are collected, or its
\* exception is printed and the bug contributes no row
MutPoolCollect(b) ==
    /\ prog = "mutation"
    /\ pc = "pool"
    /\ b \in Tasks
    /\ wpc[b] \in {"returned", "raised"}
    /\ all_rows' = IF wpc[b] = "returned" THEN all_rows \o wres[b] ELSE all_rows
    /\ Goto(b, "collected")
    /\ UNCHANGED <<reportvars, prog, bugs, jobs, pc, cur, summ, summ0, wdir, wres, wloc,
                   calls, outcsv>>

\* after the loop: the combined <project>_summary.csv is written once
MutWrite ==
    /\ prog = "mutation"
    /\ \/ pc = "seq" /\ cur > Len(bugs)
       \/ pc = "pool" /\ \A b \in Tasks : wpc[b] = "collected"
    /\ outcsv' = FileOf(all_rows)
    /\ pc' = "done"
    /\ UNCHANGED <<reportvars, prog, bugs, jobs, cur, summ, summ0, wdir, wpc, wres, wloc,
                   calls, all_rows>>

(* ------------------------------------------- run_mutation_repair: process_bug *)
\* one row of <project>_apr_summary.csv:
\* Project (fixed), Bug, Gen_Patches, Plausible_Patches, Correct_Patches
AprRow_unverified(b, gen, plausible, correct) ==
    [bug |-> b, gen |-> gen, plausible |-> plausible, correct |-> 0]

AprRow(b, gen, plausible, correct) ==
    [bug |-> b, gen |-> gen, plausible |-> plausible, correct |-> correct]

Return(b, row) ==
    /\ wres' = [wres EXCEPT ![b] = <<row>>]
    /\ Goto(b, "returned")

\* an ANT_ARGS word that names no mutant, and the word validate_mutant adds
OtherArg == [flag |-> "-Dother"]
MutantArg(mutant_id) == [flag |-> "-Djvm.args=-Dmajor.mutant", id |-> mutant_id]

\* _mk_env: a copy of os.environ, whose ANT_ARGS holds one word
mk_env == [ANT_ARGS |-> <<OtherArg>>]

\* process_bug without the early return for an empty candidate list
process_bug_no_early_return(b, cand, rmok) ==
    /\ wloc' = [wloc EXCEPT ![b] = [live_ids |-> cand.live_ids,
                                    total_gen |-> cand.total_gen,
                                    i |-> 1, plausible_count |-> 0,
                                    env11 |-> mk_env]]
    /\ IF wdir[bugs[b]] /\ ~rmok
       THEN /\ Raise(b)
            /\ UNCHANGED <<wdir, wres>>
       ELSE /\ (wdir[bugs[b]] \/ rmok)
            /\ wdir' = [wdir EXCEPT ![bugs[b]] = TRUE]
            /\ Goto(b, "checkout")
            /\ UNCHANGED wres

\* process_bug up to the checkout: cand is what parse_live_mutants returns
\* (live_ids, total_gen); with no live id the row is returned at once;
\* otherwise an existing work directory is removed (rmtree, which raises when
\* rmok is false) and created anew
process_bug(b, cand, rmok) ==
    /\ wloc' = [wloc EXCEPT ![b] = [live_ids |-> cand.live_ids,
                                    total_gen |-> cand.total_gen,
                                    i |-> 1, plausible_count |-> 0,
                                    env11 |-> mk_env]]
    /\ IF cand.live_ids = <<>>
       THEN /\ rmok
            /\ Return(b, AprRow(bugs[b], cand.total_gen, 0, 0))
            /\ UNCHANGED wdir
       ELSE IF wdir[bugs[b]] /\ ~rmok
       THEN /\ Raise(b)
            /\ UNCHANGED <<wdir, wres>>
       ELSE /\ (wdir[bugs[b]] \/ rmok)
            /\ wdir' = [wdir EXCEPT ![bugs[b]] = TRUE]
            /\ Goto(b, "checkout")
            /\ UNCHANGED wres

\* step 2: checkout of the buggy version inside try/except
RepCheckout(b, rc) ==
    /\ prog = "repair"
    /\ wpc[b] = "checkout"
    /\ Ran(b, "checkout", rc)
    /\ IF rc # 0
       THEN Return(b, AprRow(bugs[b], wloc[b].total_gen, 0, 0))
       ELSE Goto(b, "export") /\ UNCHANGED wres
    /\ UNCHANGED <<reportvars, prog, bugs, jobs, pc, cur, summ, summ0, wdir, wloc, all_rows, outcsv>>

\* step 3: export tests.trigger with check=False; no trigger, no validation
RepExport(b, rc, has_trigger) ==
    /\ prog = "repair"
    /\ wpc[b] = "export"
    /\ Ran(b, "export", rc)
    /\ IF ~has_trigger
       THEN Return(b, AprRow(bugs[b], wloc[b].total_gen, 0, 0))
       ELSE Goto(b, "compile") /\ UNCHANGED wres
    /\ UNCHANGED <<reportvars, prog, bugs, jobs, pc, cur, summ, summ0, wdir, wloc, all_rows, outcsv>>

RepCompile_unchecked(b, rc) ==
    /\ prog = "repair"
    /\ wpc[b] = "compile"
    /\ Ran(b, "compile", rc)
    /\ Goto(b, "validate")
    /\ UNCHANGED <<reportvars, prog, bugs, jobs, pc, cur, summ, summ0, wdir, wres, wloc, all_rows, outcsv>>

\* step 4: compile with the Major compiler inside try/except
RepCompile(b, rc) ==
    /\ prog = "repair"
    /\ wpc[b] = "compile"
    /\ Ran(b, "compile", rc)
    /\ IF rc # 0
       THEN Return(b, AprRow(bugs[b], wloc[b].total_gen, 0, 0))
       ELSE Goto(b, "validate") /\ UNCHANGED wres
    /\ UNCHANGED <<reportvars, prog, bugs, jobs, pc, cur, summ, summ0, wdir, wloc, all_rows, outcsv>>

\* validate_mutant's test_env: the env it is given with the word for
\* mutant_id added to ANT_ARGS
test_env(env, mutant_id) == [env EXCEPT !.ANT_ARGS = Append(@, MutantArg(mutant_id))]

\* validate_mutant with test_env = env: the caller's dictionary is changed
caller_env_shared(env, mutant_id) == test_env(env, mutant_id)

\* the caller's env after validate_mutant: test_env is a copy, env is as before
caller_env(env, mutant_id) == env

\* validate_mutant that takes a failing test for a fix
validate_mutant_inverted(rc) == rc # 0

\* validate_mutant: True exactly when the test command returns 0
validate_mutant(rc) == rc = 0

\* step 5, one iteration: validate_mutant runs the triggering test with the
\* next live mutant active (-Dmajor.mutant=<id>); a mutant that makes the
\* test pass is counted as plausible
RepValidate(b, rc) ==
    /\ prog = "repair"
    /\ wpc[b] = "validate"
    /\ wloc[b].i <= Len(wloc[b].live_ids)
    /\ calls' = [calls EXCEPT ![b] =
                    Append(@, [cmd |-> "test", rc |-> rc,
                               mutant |-> wloc[b].live_ids[wloc[b].i],
                               ant_args |-> test_env(wloc[b].env11,
                                                     wloc[b].live_ids[wloc[b].i]).ANT_ARGS])]
    /\ wloc' = [wloc EXCEPT ![b].i = @ + 1,
                            ![b].env11 = caller_env(@, wloc[b].live_ids[wloc[b].i]),
                            ![b].plausible_count =
                                IF validate_mutant(rc) THEN @ + 1 ELSE @]
    /\ UNCHANGED <<reportvars, prog, bugs, jobs, pc, cur, summ, summ0, wdir, wpc, wres, all_rows, outcsv>>

\* after the loop: shutil.rmtree(wd), which raises when it fails, then the
\* result row
RepCleanup(b, rmok) ==
    /\ prog = "repair"
    /\ wpc[b] = "validate"
    /\ wloc[b].i > Len(wloc[b].live_ids)
    /\ IF rmok
       THEN /\ wdir' = [wdir EXCEPT ![bugs[b]] = FALSE]
            /\ Return(b, AprRow(bugs[b], wloc[b].total_gen, wloc[b].plausible_count,
                                wloc[b].plausible_count))
       ELSE /\ Raise(b)
            /\ UNCHANGED <<wdir, wres>>
    /\ UNCHANGED <<reportvars, prog, bugs, jobs, pc, cur, summ, summ0, wloc, calls, all_rows, outcsv>>

(* ------------------------------------------------- run_mutation_repair: main *)
\* main finds no active-bugs.csv for the project: it prints "not found" and
\* ends by sys.exit(1), before the results file is opened
RepProjectNotFound ==
    /\ prog = "repair"
    /\ pc = "main"
    /\ buglist = "nofile"
    /\ pc' = "exit"
    /\ UNCHANGED <<reportvars, prog, bugs, jobs, cur, summ, summ0, wdir, wpc, wres, wloc,
                   calls, all_rows, outcsv>>

\* main writes the header of the results file (mode "w") and chooses the
\* pool (--jobs > 1) or the sequential loop
RepDispatch ==
    /\ prog = "repair"
    /\ pc = "main"
    /\ buglist # "nofile"
    /\ outcsv' = FileOf(<<>>)
    /\ pc' = IF jobs > 1 THEN "pool" ELSE "seq"
    /\ UNCHANGED <<reportvars, prog, bugs, jobs, cur, summ, summ0, wdir, wpc, wres, wloc,
                   calls, all_rows>>

\* the results file opened with "w" for each row: earlier rows are lost
AppendRow_truncating(file, row) == FileOf(<<row>>)

\* open(outfile, "a"); writerow(res): one row appended
AppendRow(file, row) == FileOf(Append(file.rows, row))

\* sequential loop: process_bug is called for the next bug
RepSeqCall(cand, rmok) ==
    /\ prog = "repair"
    /\ pc = "seq"
    /\ cur <= Len(bugs)
    /\ wpc[cur] = "queued"
    /\ process_bug(cur, cand, rmok)
    /\ UNCHANGED <<reportvars, prog, bugs, jobs, pc, cur, summ, summ0, calls, all_rows, outcsv>>

\* sequential loop: the call ended; its row is appended to the results file,
\* or its exception is caught and printed
RepSeqCollect ==
    /\ prog = "repair"
    /\ pc = "seq"
    /\ cur <= Len(bugs)
    /\ wpc[cur] \in {"returned", "raised"}
    /\ outcsv' = IF wpc[cur] = "returned"
                 THEN AppendRow(outcsv, wres[cur][1])
                 ELSE outcsv
    /\ Goto(cur, "collected")
    /\ cur' = cur + 1
    /\ UNCHANGED <<reportvars, prog, bugs, jobs, pc, summ, summ0, wdir, wres, wloc, calls, all_rows>>

\* pool: a free worker process takes a submitted bug
RepPoolStart(b, cand, rmok) ==
    /\ prog = "repair"
    /\ pc = "pool"
    /\ b \in Tasks
    /\ wpc[b] = "queued"
    /\ Cardinality(Running) < jobs
    /\ process_bug(b, cand, rmok)
    /\ UNCHANGED <<reportvars, prog, bugs, jobs, pc, cur, summ, summ0, calls, all_rows, outcsv>>

\* pool: as_completed yields a future; its row is appended, or its exception
\* is caught and printed
RepPoolCollect(b) ==
    /\ prog = "repair"
    /\ pc = "pool"
    /\ b \in Tasks
    /\ wpc[b] \in {"returned", "raised"}
    /\ outcsv' = IF wpc[b] = "returned" THEN AppendRow(outcsv, wres[b][1]) ELSE outcsv
    /\ Goto(b, "collected")
    /\ UNCHANGED <<reportvars, prog, bugs, jobs, pc, cur, summ, summ0, wdir, wres, wloc, calls, all_rows>>

\* after the loop main prints where the results are and ends
RepDone ==
    /\ prog = "repair"
    /\ \/ pc = "seq" /\ cur > Len(bugs)
       \/ pc = "pool" /\ \A b \in Tasks : wpc[b] = "collected"
    /\ pc' = "done"
    /\ UNCHANGED <<reportvars, prog, bugs, jobs, cur, summ, summ0, wdir, wpc, wres, wloc,
                   calls, all_rows, outcsv>>

(* ------------------------------------------------------------ initial states *)
\* list_bugs: the ids of active-bugs.csv, unique and in increasing order
BugLists == {[i \in 1..n |-> i] : n \in 0..MaxBugs}

\* a summary file a previous run left behind, in multi-bug runs
StoredRow(e, b) == SummaryRow(e, b, 3, 1, 2)

\* any summary file of at most one data row, with any counts: header only,
\* consistent, or with a survived value that disagrees with total - killed
AnyFiles(e, b) ==
    {Absent, FileOf(<<>>)} \cup
    {FileOf(<<SummaryRow(e, b, t, k, s)>>) :
        t \in 0..MaxCount, k \in 0..MaxCount, s \in 0..MaxCount}

\* exit codes: success, failure
ExitCodes == {0, 1}

\* the tool outcomes tried in multi-bug runs: counts on stdout, or nothing
SomeMajorReports ==
    {[rc |-> 0, gen |-> Some(1), kill |-> Some(0), killfile |-> None],
     [rc |-> 1, gen |-> None, kill |-> None, killfile |-> None]}
SomePitReports ==
    {[rc |-> 0, gen |-> None, kill |-> None, found |-> Some([n |-> 1, k |-> 1])],
     [rc |-> 1, gen |-> None, kill |-> None, found |-> None]}

\* the revisions of a bug: buggy, fixed
Revs == {"b", "f"}

\* the state of export_dev_patches in a run of another script
NoExport ==
    [todo |-> 0, force |-> FALSE, dirs |-> [b \in BugIds |-> [r \in Revs |-> FALSE]],
     diffs |-> [b \in BugIds |-> "absent"], ran |-> <<>>]

InitWorkers ==
    /\ pc = "main"
    /\ xport = NoExport
    /\ cur = 1
    /\ wpc = [b \in BugIds |-> "queued"]
    /\ wres = [b \in BugIds |-> <<>>]
    /\ wloc = [b \in BugIds |-> <<>>]
    /\ calls = [b \in BugIds |-> <<>>]
    /\ all_rows = <<>>
    /\ outcsv = Absent
    /\ logs = <<>>
    /\ acc = <<>>
    /\ reports = <<>>

\* a run of run_one_project_both_final over a project's bug list; each bug
\* directory holds any of the two summary files of an earlier run, and the
\* major_summary.csv of the first bug may have been cut short (no data row)
InitMut ==
    /\ prog = "mutation"
    /\ buglist \in {"file", "nofile"}
    /\ bugs \in BugLists
    /\ buglist = "nofile" => bugs = <<>>
    /\ jobs \in 1..MaxJobs
    /\ \E has \in [BugIds -> SUBSET Engines] : \E cut \in BOOLEAN :
          /\ \A b \in BugIds : b \notin Requested => has[b] = {}
          /\ cut => has[1] = Engines
          /\ summ = [b \in BugIds |-> [e \in Engines |->
                        IF e \notin has[b] THEN Absent
                        ELSE IF cut /\ b = 1 /\ e = "MAJOR" THEN FileOf(<<>>)
                        ELSE FileOf(<<StoredRow(e, b)>>)]]
    /\ summ0 = summ
    /\ wdir = [b \in BugIds |-> FALSE]
    /\ InitWorkers

\* a run of run_one_project_both_final for one bug id given on the command line
InitOneBug ==
    /\ prog = "mutation"
    /\ buglist = "args"
    /\ bugs = <<1>>
    /\ jobs = 1
    /\ \E m \in AnyFiles("MAJOR", 1) : \E p \in AnyFiles("PIT", 1) :
          summ = [b \in BugIds |->
                    IF b = 1 THEN [e \in Engines |-> IF e = "MAJOR" THEN m ELSE p]
                    ELSE [e \in Engines |-> Absent]]
    /\ summ0 = summ
    /\ wdir \in {f \in [BugIds -> BOOLEAN] : \A b \in BugIds : b # 1 => ~f[b]}
    /\ InitWorkers

\* the lists --bugs can give: main splits the argument at commas and keeps
\* every non-empty piece, in order, repeated ids included
ArgBugLists ==
    {<<a>> : a \in BugIds} \cup {<<a, b>> : a \in BugIds, b \in BugIds}

\* a run of run_one_project_both_final with --bugs; a bug directory holds
\* both summary files of an earlier run or none
InitBugsArg ==
    /\ prog = "mutation"
    /\ buglist = "args"
    /\ bugs \in ArgBugLists
    /\ jobs \in 1..MaxJobs
    /\ \E has \in SUBSET BugIds :
          /\ has \subseteq Requested
          /\ summ = [b \in BugIds |-> [e \in Engines |->
                        IF b \in has THEN FileOf(<<StoredRow(e, b)>>) ELSE Absent]]
    /\ summ0 = summ
    /\ wdir = [b \in BugIds |-> FALSE]
    /\ InitWorkers

\* str.upper() on the status cells that occur
Upper(s) ==
    CASE s = "killed" -> "KILLED"
      [] s = "live"   -> "LIVE"
      [] s = "exc"    -> "EXC"
      [] OTHER        -> s

\* logs/<project>-<bug>/ and the files the reporting scripts read in it.
\* A line of mutants.log is the tuple of its ":"-separated parts, of which
\* the second, the operator, is the tuple of its "<"-separated pieces; a row
\* of kill.csv is the tuple of its cells.
LogDir(proj, bug, mutants, kill, major, pit, apr) ==
    [project |-> proj, bug |-> bug, mutants |-> mutants, kill |-> kill,
     major |-> major, pit |-> pit, apr |-> apr]

\* run_mutation_repair's reading of a bug folder: the ids of the lines of
\* mutants.log that kill.csv does not mark killed, and the number of lines
parse_live_mutants(log_dir) ==
    IF ~log_dir.mutants.exists \/ ~log_dir.kill.exists
    THEN [live_ids |-> <<>>, total_gen |-> 0]
    ELSE LET rows   == log_dir.kill.rows
             killed == {rows[i][1] :
                          i \in {j \in DOMAIN rows :
                                   /\ rows[j] # <<>>
                                   /\ Upper(rows[j][Len(rows[j])]) \in
                                        {"KILLED", "TIMEOUT", "MEMORY_ERROR",
                                         "RUNTIME_ERROR", "EXC"}}}
             mids   == [i \in DOMAIN log_dir.mutants.rows |-> log_dir.mutants.rows[i][1]]
         IN  [live_ids |-> SelectSeq(mids, LAMBDA m : m \notin killed),
              total_gen |-> Len(mids)]

\* the folders logs/<project>-<bug> a run of run_mutation_repair finds: no
\* mutants.log, no kill.csv, the one mutant killed, three mutants of which
\* the second is killed
RepairDirs ==
    {LogDir("Lang", 1, Absent, FileOf(<<<<"1", "LIVE">>>>), Absent, Absent, None),
     LogDir("Lang", 1, FileOf(<<<<"1", <<"ROR">>>>>>), Absent, Absent, Absent, None),
     LogDir("Lang", 1, FileOf(<<<<"1", <<"ROR">>>>>>), FileOf(<<<<"1", "KILLED">>>>),
            Absent, Absent, None),
     LogDir("Lang", 1,
            FileOf(<<<<"1", <<"ROR">>>>, <<"2", <<"COR">>>>, <<"3", <<"XYZ">>>>>>),
            FileOf(<<<<"1", "LIVE">>, <<"2", "KILLED">>>>), Absent, Absent, None)}

\* what parse_live_mutants returns for them: (live_ids, total_gen)
SomeCandidates == {parse_live_mutants(d) : d \in RepairDirs}

\* a run of run_mutation_repair over a project's bug list; the work directory
\* of the first bug may be left over from an earlier run
InitRep ==
    /\ prog = "repair"
    /\ buglist \in {"file", "nofile"}
    /\ bugs \in BugLists
    /\ buglist = "nofile" => bugs = <<>>
    /\ jobs \in 1..MaxJobs
    /\ summ = [b \in BugIds |-> [e \in Engines |-> Absent]]
    /\ summ0 = summ
    /\ wdir \in {f \in [BugIds -> BOOLEAN] : \A b \in BugIds : f[b] => b = 1 /\ b \in Requested}
    /\ InitWorkers

(* -------------------------------------------------------------- next states *)
\* the steps of process_one_bug, the external mutation commands' outcomes
\* drawn from MR (Major) and PR (PIT)
MutWorkerNext(MR, PR) ==
    \/ \E b \in BugIds : \E rc \in ExitCodes : \E left \in BOOLEAN : checkout_rev(b, rc, left)
    \/ \E b \in BugIds : \E rc \in ExitCodes : compile(b, rc)
    \/ \E b \in BugIds : \E rep \in MR : run_major(b, rep)
    \/ \E b \in BugIds : \E rep \in PR : run_pit(b, rep)

MutSeqNext ==
    \/ MutDispatch
    \/ MutSeqCall
    \/ MutSeqReturn
    \/ MutSeqRaise
    \/ MutWrite

MutPoolNext ==
    \/ \E b \in BugIds : MutPoolStart(b)
    \/ \E b \in BugIds : MutPoolCollect(b)

NextMut ==
    \/ MutListBugsMissing
    \/ MutSeqNext
    \/ MutPoolNext
    \/ MutWorkerNext(SomeMajorReports, SomePitReports)
NextBugsArg == MutSeqNext \/ MutPoolNext \/ MutWorkerNext(SomeMajorReports, SomePitReports)
NextOneBug == MutSeqNext \/ MutWorkerNext(MajorReports, PitReports)

NextRep ==
    \/ RepProjectNotFound
    \/ RepDispatch
    \/ \E cand \in SomeCandidates : \E rmok \in BOOLEAN : RepSeqCall(cand, rmok)
    \/ RepSeqCollect
    \/ \E b \in BugIds : \E cand \in SomeCandidates : \E rmok \in BOOLEAN :
            RepPoolStart(b, cand, rmok)
    \/ \E b \in BugIds : RepPoolCollect(b)
    \/ RepDone
    \/ \E b \in BugIds : \E rc \in ExitCodes : RepCheckout(b, rc)
    \/ \E b \in BugIds : \E rc \in ExitCodes : \E t \in BOOLEAN : RepExport(b, rc, t)
    \/ \E b \in BugIds : \E rc \in ExitCodes : RepCompile(b, rc)
    \/ \E b \in BugIds : \E rc \in ExitCodes : RepValidate(b, rc)
    \/ \E b \in BugIds : \E rmok \in BOOLEAN : RepCleanup(b, rmok)

SpecRep == InitRep /\ [][NextRep]_vars
NextDrivers == NextMut \/ NextRep

SpecDrivers == (InitMut \/ InitRep) /\ [][NextDrivers]_vars
SpecMut == InitMut /\ [][NextMut]_vars
SpecOneBug == InitOneBug /\ [][NextOneBug]_vars
SpecBugsArg == InitBugsArg /\ [][NextBugsArg]_vars

(* ======================================================================== *)
(* export_dev_patches.py (evaluate_patches.py holds the same code)          *)
(* ======================================================================== *)
\* what the export script never touches
exportfixed == <<prog, buglist, bugs, jobs, summ, summ0, wdir, wpc, wres, wloc, calls,
                 all_rows, outcsv, logs, acc, reports>>

\* main: the Java and Defects4J probes; a failed one ends the script
preflight_java(ok) ==
    /\ prog = "export" /\ pc = "preflight"
    /\ pc' = IF ok THEN "main" ELSE "exit"
    /\ UNCHANGED <<exportfixed, cur, xport>>

\* main calls export_project for the next project on the command line;
\* list_bugs gives [] when active-bugs.csv is missing and export_project
\* returns when there is no bug
export_project ==
    /\ prog = "export" /\ pc = "main"
    /\ xport.todo > 0
    /\ IF buglist = "nofile" \/ bugs = <<>>
       THEN /\ xport' = [xport EXCEPT !.todo = @ - 1]
            /\ UNCHANGED <<pc, cur>>
       ELSE /\ pc' = "checkout_b"
            /\ cur' = 1
            /\ UNCHANGED xport
    /\ UNCHANGED exportfixed

checkout_always(rc, left) ==
    /\ prog = "export" /\ pc \in {"checkout_b", "checkout_f"}
    /\ LET rev == IF pc = "checkout_b" THEN "b" ELSE "f"
           bug == bugs[cur]
       IN  IF rc = 0
           THEN /\ left
                /\ xport' = [xport EXCEPT !.dirs[bug][rev] = TRUE,
                                !.ran = Append(@, [cmd |-> "checkout", bug |-> bug,
                                                   rev |-> rev, rc |-> rc])]
                /\ pc' = IF rev = "b" THEN "checkout_f" ELSE "diff"
           ELSE /\ xport' = [xport EXCEPT !.dirs[bug][rev] = left, !.todo = @ - 1,
                                !.ran = Append(@, [cmd |-> "checkout", bug |-> bug,
                                                   rev |-> rev, rc |-> rc])]
                /\ pc' = "main"
    /\ UNCHANGED <<exportfixed, cur>>

\* checkout: the external checkout runs only when the directory does not
\* exist; a failed checkout (rc # 0) raises RuntimeError, which ends
\* export_project and is caught by main, and may leave a partial directory
\* behind (left)
checkout(rc, left) ==
    /\ prog = "export" /\ pc \in {"checkout_b", "checkout_f"}
    /\ LET rev == IF pc = "checkout_b" THEN "b" ELSE "f"
           bug == bugs[cur]
       IN  IF xport.dirs[bug][rev]
           THEN /\ rc = 0 /\ left
                /\ pc' = IF rev = "b" THEN "checkout_f" ELSE "diff"
                /\ UNCHANGED xport
           ELSE IF rc = 0
           THEN /\ left
                /\ xport' = [xport EXCEPT !.dirs[bug][rev] = TRUE,
                                !.ran = Append(@, [cmd |-> "checkout", bug |-> bug,
                                                   rev |-> rev, rc |-> rc])]
                /\ pc' = IF rev = "b" THEN "checkout_f" ELSE "diff"
           ELSE /\ xport' = [xport EXCEPT !.dirs[bug][rev] = left, !.todo = @ - 1,
                                !.ran = Append(@, [cmd |-> "checkout", bug |-> bug,
                                                   rev |-> rev, rc |-> rc])]
                /\ pc' = "main"
    /\ UNCHANGED <<exportfixed, cur>>

\* the exit codes of diff: no difference, differences, trouble
DiffCodes == {0, 1, 2}

\* export_project that writes whatever diff printed, whatever its exit code
diff_unchecked(rc) ==
    /\ prog = "export" /\ pc = "diff"
    /\ LET bug == bugs[cur]
       IN  IF xport.diffs[bug] # "absent" /\ ~xport.force
           THEN /\ rc = 0
                /\ xport' = [xport EXCEPT !.todo = IF cur = Len(bugs) THEN @ - 1 ELSE @]
           ELSE xport' = [xport EXCEPT
                            !.diffs[bug] = "new",
                            !.ran = Append(@, [cmd |-> "diff", bug |-> bug, rev |-> "bf",
                                               rc |-> rc]),
                            !.todo = IF cur = Len(bugs) THEN @ - 1 ELSE @]
    /\ IF cur = Len(bugs) THEN pc' = "main" /\ UNCHANGED cur
       ELSE pc' = "checkout_b" /\ cur' = cur + 1
    /\ UNCHANGED exportfixed

\* export_project after the two checkouts: an existing .diff is kept unless
\* --force; else diff runs and its output is written when it exits 0 or 1;
\* then the next bug, or the end of export_project
diff(rc) ==
    /\ prog = "export" /\ pc = "diff"
    /\ LET bug == bugs[cur]
       IN  IF xport.diffs[bug] # "absent" /\ ~xport.force
           THEN /\ rc = 0
                /\ xport' = [xport EXCEPT !.todo = IF cur = Len(bugs) THEN @ - 1 ELSE @]
           ELSE xport' = [xport EXCEPT
                            !.diffs[bug] = IF rc \in {0, 1} THEN "new" ELSE @,
                            !.ran = Append(@, [cmd |-> "diff", bug |-> bug, rev |-> "bf",
                                               rc |-> rc]),
                            !.todo = IF cur = Len(bugs) THEN @ - 1 ELSE @]
    /\ IF cur = Len(bugs) THEN pc' = "main" /\ UNCHANGED cur
       ELSE pc' = "checkout_b" /\ cur' = cur + 1
    /\ UNCHANGED exportfixed

\* main after the last project
ExportDone ==
    /\ prog = "export" /\ pc = "main"
    /\ xport.todo = 0
    /\ pc' = "done"
    /\ UNCHANGED <<exportfixed, cur, xport>>

\* export_dev_patches.py Lang [Lang] [--force]: the project is named once or
\* twice, its bug list exists or not, and checkout directories and .diff
\* files of an earlier run may be there
InitExport ==
    /\ prog = "export"
    /\ buglist \in {"file", "nofile"}
    /\ bugs \in BugLists
    /\ buglist = "nofile" => bugs = <<>>
    /\ jobs = 1
    /\ summ = [b \in BugIds |-> [e \in Engines |-> Absent]]
    /\ summ0 = summ
    /\ wdir = [b \in BugIds |-> FALSE]
    /\ pc = "preflight"
    /\ cur = 1
    /\ wpc = [b \in BugIds |-> "queued"]
    /\ wres = [b \in BugIds |-> <<>>]
    /\ wloc = [b \in BugIds |-> <<>>]
    /\ calls = [b \in BugIds |-> <<>>]
    /\ all_rows = <<>>
    /\ outcsv = Absent
    /\ logs = <<>>
    /\ acc = <<>>
    /\ reports = <<>>
    /\ \E n \in {1, 2} : \E force \in BOOLEAN :
       \E dirs \in [BugIds -> [Revs -> BOOLEAN]] : \E old \in SUBSET BugIds :
          /\ \A b \in BugIds : b \notin Requested => (\A r \in Revs : ~dirs[b][r]) /\ b \notin old
          /\ xport = [todo |-> n, force |-> force, dirs |-> dirs,
                      diffs |-> [b \in BugIds |-> IF b \in old THEN "old" ELSE "absent"],
                      ran |-> <<>>]

NextExport ==
    \/ \E ok \in BOOLEAN : preflight_java(ok)
    \/ export_project
    \/ \E rc \in ExitCodes : \E left \in BOOLEAN : checkout(rc, left)
    \/ \E rc \in DiffCodes : diff(rc)
    \/ ExportDone

SpecExport == InitExport /\ [][NextExport]_vars

\* the runs in which a checkout directory is looked for more than once
SpecCheckout == (InitBugsArg \/ InitExport) /\ [][NextBugsArg \/ NextExport]_vars

(* ======================================================================== *)
(* The reporting scripts                                                    *)
(* ======================================================================== *)
\* what the reporting scripts never touch
drivervars == <<buglist, bugs, jobs, summ, summ0, wdir, wpc, wres, wloc, calls, all_rows, outcsv,
                xport>>

\* the lines of mutants.log tried per log directory
MaxMutants == 3

\* str(i) and int(s) for mutant ids
Digits == <<"1", "2", "3", "4", "5", "6", "7", "8", "9">>
ToStr(i) == Digits[i]
ToInt(s) ==
    IF \E i \in DOMAIN Digits : Digits[i] = s
    THEN Some(CHOOSE i \in DOMAIN Digits : Digits[i] = s)
    ELSE None

\* str.strip() on the status cells that occur
Strip(s) ==
    CASE s = " live " -> "live"
      [] s = "LIVE "  -> "LIVE"
      [] OTHER        -> s

\* dict.get(k, dflt) and d[k] += n on a dict held as a function
Get(f, k, dflt) == IF k \in DOMAIN f THEN f[k] ELSE dflt
Inc(f, k, n) == IF k \in DOMAIN f THEN [f EXCEPT ![k] = @ + n] ELSE f @@ (k :> n)

RECURSIVE SumSeq(_)
SumSeq(s) == IF s = <<>> THEN 0 ELSE Head(s) + SumSeq(Tail(s))

\* project names in sorted() order
ProjOrder == <<"Lang", "Math">>
SortedNames(S) == SelectSeq(ProjOrder, LAMBDA n : n \in S)

\* f"{k/t:.Nf}" as an integer number of 1/scale units, 0 when t = 0
\* (round-half-even, which is what the exactly representable ties get)
Rate(k, t, scale) ==
    IF t = 0 THEN 0
    ELSE LET q == (scale * k) \div t
             r == (scale * k) % t
         IN  IF 2 * r > t \/ (2 * r = t /\ q % 2 = 1) THEN q + 1 ELSE q

\* root is the path of the logs root as it was given to the script
NoLogs == [exists |-> FALSE, dirs |-> <<>>, root |-> "/work/logs"]
LogsAt(root, ds) == [exists |-> TRUE, dirs |-> ds, root |-> root]
LogsOf(ds) == LogsAt("/work/logs", ds)

(* ------------------------------------------------------- generate_table.py *)
OPERATOR_MAP ==
    ("ROR" :> "ROR") @@ ("COR" :> "COR") @@ ("LVR" :> "LVR") @@ ("STD" :> "STD") @@
    ("AOR" :> "AOR") @@ ("SOR" :> "SOR") @@ ("LOR" :> "LOR") @@ ("ORU" :> "Other") @@
    ("EVR" :> "Other")
KNOWN_OPS == <<"ROR", "COR", "LVR", "STD", "AOR", "SOR", "LOR", "Other">>

ProjectStats ==
    [bugs_analyzed |-> {}, total_mutants |-> 0, killed_mutants |-> 0,
     survived_mutants |-> 0, live_ops |-> <<>>,
     apr_generated |-> 0, apr_plausible |-> 0, apr_correct |-> 0,
     fixed_bug_ids |-> {}]

\* normalize_operator that keeps the operator's own name
normalize_operator_unmapped(raw_op) == raw_op[1]

normalize_operator(raw_op) ==
    LET base == raw_op[1]
    IN  IF base \in DOMAIN OPERATOR_MAP THEN OPERATOR_MAP[base] ELSE "Other"

\* the outcomes parse_major_details takes for killed
KilledOutcomes == {"KILLED", "TIMEOUT", "MEMORY_ERROR", "RUNTIME_ERROR", "EXC"}

\* the ids of the kill.csv rows whose last cell is a killed outcome
killed_ids(kill) ==
    IF ~kill.exists THEN {}
    ELSE {kill.rows[i][1] :
            i \in {j \in DOMAIN kill.rows :
                     /\ kill.rows[j] # <<>>
                     /\ Upper(kill.rows[j][Len(kill.rows[j])]) \in KilledOutcomes}}

NoDetails == [total |-> 0, killed |-> 0, survived |-> 0, live_ops |-> <<>>]

\* the loop over the lines of mutants.log
RECURSIVE ParseLines(_, _, _)
ParseLines(lines, killed, st) ==
    IF lines = <<>> THEN st
    ELSE LET parts == Head(lines)
         IN  IF Len(parts) < 2 THEN ParseLines(Tail(lines), killed, st)
             ELSE IF parts[1] \in killed
             THEN ParseLines(Tail(lines), killed,
                    [st EXCEPT !.total = @ + 1, !.killed = @ + 1])
             ELSE ParseLines(Tail(lines), killed,
                    [st EXCEPT !.total = @ + 1, !.survived = @ + 1,
                               !.live_ops = Inc(@, normalize_operator(parts[2]), 1)])

parse_major_details(log_dir) ==
    IF ~log_dir.mutants.exists THEN NoDetails
    ELSE ParseLines(log_dir.mutants.rows, killed_ids(log_dir.kill), NoDetails)

\* str.lower() on the status cells that occur
Lower(s) ==
    CASE s = "KILLED" -> "killed"
      [] s = "LIVE"   -> "live"
      [] s = "EXC"    -> "exc"
      [] OTHER        -> s

\* run_major without the stdout numbers: (total, killed, survived) counted
\* from the rows of kill.csv, whose status column is named "status"; a row
\* without that cell counts as a row with an empty status
kill_csv_counts(kill) ==
    LET rows   == {j \in DOMAIN kill.rows : kill.rows[j] # <<>>}
        killed == {j \in rows : /\ Len(kill.rows[j]) >= 2
                                /\ Lower(kill.rows[j][2]) \in {"killed", "timeout", "memoryerror"}}
    IN  <<Cardinality(rows), Cardinality(killed),
          Max(0, Cardinality(rows) - Cardinality(killed))>>

\* stats.live_ops[op] = count: the last folder's count replaces the sum
MergeOps_overwrite(a, b) ==
    [op \in DOMAIN a \cup DOMAIN b |-> IF op \in DOMAIN b THEN b[op] ELSE a[op]]

\* for op, count in ops.items(): stats.live_ops[op] += count
MergeOps(a, b) ==
    [op \in DOMAIN a \cup DOMAIN b |-> Get(a, op, 0) + Get(b, op, 0)]

\* projects[name], created when missing
WithProject(projects, name) ==
    IF name \in DOMAIN projects THEN projects ELSE projects @@ (name :> ProjectStats)

load_apr_results(projects, file) ==
    IF ~file.exists THEN projects
    ELSE LET P0 == WithProject(projects, "Lang")
             rs == file.rows
         IN  [P0 EXCEPT !["Lang"] =
                [@ EXCEPT
                   !.apr_generated = @ + SumSeq([i \in DOMAIN rs |-> rs[i].gen]),
                   !.apr_plausible = @ + SumSeq([i \in DOMAIN rs |-> rs[i].plausible]),
                   !.apr_correct   = @ + SumSeq([i \in DOMAIN rs |-> rs[i].correct]),
                   !.fixed_bug_ids = @ \cup {rs[i].bug : i \in {j \in DOMAIN rs : rs[j].plausible > 0}}]]

\* collect_data up to the loop over the log directories; sys.exit(1) when
\* the logs root is missing
collect_data ==
    /\ prog = "table" /\ pc = "main"
    /\ IF ~logs.exists
       THEN pc' = "exit" /\ UNCHANGED acc
       ELSE pc' = "scan" /\ acc' = [projects |-> <<>>, details |-> <<>>]
    /\ UNCHANGED <<prog, cur, logs, reports, drivervars>>

\* one pass of the loop of collect_data: parse_major_details on a directory
TblDir ==
    /\ prog = "table" /\ pc = "scan" /\ cur <= Len(logs.dirs)
    /\ LET d  == logs.dirs[cur]
           r  == parse_major_details(d)
           P0 == WithProject(acc.projects, d.project)
       IN  acc' = [projects |->
                     IF r.total > 0
                     THEN [P0 EXCEPT ![d.project] =
                            [@ EXCEPT !.bugs_analyzed = @ \cup {d.bug},
                                      !.total_mutants = @ + r.total,
                                      !.killed_mutants = @ + r.killed,
                                      !.survived_mutants = @ + r.survived,
                                      !.live_ops = MergeOps(@, r.live_ops)]]
                     ELSE P0,
                   details |-> Append(acc.details, r)]
    /\ cur' = cur + 1
    /\ UNCHANGED <<prog, pc, logs, reports, drivervars>>

\* the end of collect_data, and main's test of its result
TblLoadApr ==
    /\ prog = "table" /\ pc = "scan" /\ cur > Len(logs.dirs)
    /\ acc' = [acc EXCEPT !.projects = load_apr_results(@, reports["apr_summary"])]
    /\ pc' = IF DOMAIN acc'.projects = {} THEN "done" ELSE "save9"
    /\ UNCHANGED <<prog, cur, logs, reports, drivervars>>

Table9Row(name, p) ==
    [project |-> name, bugs |-> Cardinality(p.bugs_analyzed),
     gen |-> p.apr_generated, plausible |-> p.apr_plausible,
     correct |-> p.apr_correct, fixed |-> Cardinality(p.fixed_bug_ids),
     mutants |-> p.total_mutants, killed |-> p.killed_mutants,
     rate |-> Rate(p.killed_mutants, p.total_mutants, 100)]

Table10Row(name, p) ==
    [project |-> name, bugs |-> Cardinality(p.bugs_analyzed),
     mutants |-> p.total_mutants, live |-> p.survived_mutants,
     killed |-> p.killed_mutants]

Table11Row(name, p) ==
    [project |-> name,
     counts |-> [i \in DOMAIN KNOWN_OPS |-> Get(p.live_ops, KNOWN_OPS[i], 0)]]

save_table_9 ==
    /\ prog = "table" /\ pc = "save9"
    /\ LET P    == acc.projects
           kept == SelectSeq(SortedNames(DOMAIN P),
                     LAMBDA n : ~(P[n].total_mutants = 0 /\ P[n].apr_generated = 0))
       IN  reports' = [reports EXCEPT !["table9"] =
                         FileOf([i \in DOMAIN kept |-> Table9Row(kept[i], P[kept[i]])])]
    /\ pc' = "save10"
    /\ UNCHANGED <<prog, cur, logs, acc, drivervars>>

save_table_10 ==
    /\ prog = "table" /\ pc = "save10"
    /\ LET P    == acc.projects
           kept == SelectSeq(SortedNames(DOMAIN P), LAMBDA n : P[n].total_mutants # 0)
       IN  reports' = [reports EXCEPT !["table10"] =
                         FileOf([i \in DOMAIN kept |-> Table10Row(kept[i], P[kept[i]])])]
    /\ pc' = "save11"
    /\ UNCHANGED <<prog, cur, logs, acc, drivervars>>

save_table_11 ==
    /\ prog = "table" /\ pc = "save11"
    /\ LET P    == acc.projects
           kept == SelectSeq(SortedNames(DOMAIN P), LAMBDA n : P[n].total_mutants # 0)
       IN  reports' = [reports EXCEPT !["table11"] =
                         FileOf([i \in DOMAIN kept |-> Table11Row(kept[i], P[kept[i]])])]
    /\ pc' = "done"
    /\ UNCHANGED <<prog, cur, logs, acc, drivervars>>

NextTable ==
    \/ collect_data
    \/ TblDir
    \/ TblLoadApr
    \/ save_table_9
    \/ save_table_10
    \/ save_table_11

(* ------------------------------------------------------ compute_patches.py *)
RECURSIVE ReadKillRows_first_wins(_, _)
ReadKillRows_first_wins(rows, status_by_id) ==
    IF rows = <<>> THEN status_by_id
    ELSE LET row == Head(rows)
         IN  IF Len(row) < 2 \/ ToInt(row[1]) = None \/ ToInt(row[1])[1] \in DOMAIN status_by_id
             THEN ReadKillRows_first_wins(Tail(rows), status_by_id)
             ELSE ReadKillRows_first_wins(Tail(rows),
                    status_by_id @@ (ToInt(row[1])[1] :> Upper(Strip(row[2]))))

\* the loop of read_kill_file: rows of fewer than two cells and rows whose
\* id is not a number are skipped, a later row of an id replaces an earlier
RECURSIVE ReadKillRows(_, _)
ReadKillRows(rows, status_by_id) ==
    IF rows = <<>> THEN status_by_id
    ELSE LET row == Head(rows)
         IN  IF Len(row) < 2 \/ ToInt(row[1]) = None
             THEN ReadKillRows(Tail(rows), status_by_id)
             ELSE ReadKillRows(Tail(rows),
                    [m \in DOMAIN status_by_id \cup {ToInt(row[1])[1]} |->
                        IF m = ToInt(row[1])[1] THEN Upper(Strip(row[2]))
                        ELSE status_by_id[m]])

read_kill_file(kill) == ReadKillRows(kill.rows, <<>>)

RECURSIVE ReadLogLines(_, _)
ReadLogLines(lines, op_by_id) ==
    IF lines = <<>> THEN op_by_id
    ELSE LET parts == Head(lines)
         IN  IF Len(parts) < 2 \/ ToInt(parts[1]) = None
             THEN ReadLogLines(Tail(lines), op_by_id)
             ELSE ReadLogLines(Tail(lines),
                    [m \in DOMAIN op_by_id \cup {ToInt(parts[1])[1]} |->
                        IF m = ToInt(parts[1])[1] THEN parts[2] ELSE op_by_id[m]])

read_mutants_log(mutants) ==
    IF ~mutants.exists THEN <<>> ELSE ReadLogLines(mutants.rows, <<>>)

\* the operator names of operator_usage.csv in sorted() order
OpOrder == <<<<"COR">>, <<"ORU", "x">>, <<"ROR">>, <<"UNKNOWN">>, <<"XYZ">>>>

NoPatchStats == [per_bug_rows |-> <<>>, per_project |-> <<>>, per_operator |-> <<>>]

\* run_for_logs_root up to the loop over the bug directories
PatStart ==
    /\ prog = "patches" /\ pc = "main"
    /\ pc' = IF ~logs.exists \/ logs.dirs = <<>> THEN "done" ELSE "scan"
    /\ acc' = NoPatchStats
    /\ UNCHANGED <<prog, cur, logs, reports, drivervars>>

\* one pass of the loop of run_for_logs_root
PatDir ==
    /\ prog = "patches" /\ pc = "scan" /\ cur <= Len(logs.dirs)
    /\ LET d == logs.dirs[cur]
       IN  IF ~d.kill.exists THEN UNCHANGED acc
           ELSE LET status    == read_kill_file(d.kill)
                    total     == Cardinality(DOMAIN status)
                    plausible == {m \in DOMAIN status : status[m] = "LIVE"}
                    incorrect == total - Cardinality(plausible)
                    ops       == read_mutants_log(d.mutants)
                    OpOf(m)   == Get(ops, m, <<"UNKNOWN">>)
                    used      == [op \in {OpOf(m) : m \in plausible} |->
                                    Cardinality({m \in plausible : OpOf(m) = op})]
                    old       == Get(acc.per_project, d.project,
                                     [bugs |-> 0, total |-> 0, plausible |-> 0, incorrect |-> 0])
                    new       == [bugs |-> old.bugs + 1, total |-> old.total + total,
                                  plausible |-> old.plausible + Cardinality(plausible),
                                  incorrect |-> old.incorrect + incorrect]
                IN  acc' = [per_bug_rows |->
                              Append(acc.per_bug_rows,
                                     [project |-> d.project, bug |-> d.bug, total |-> total,
                                      plausible |-> Cardinality(plausible),
                                      incorrect |-> incorrect]),
                            per_project |->
                              [p \in DOMAIN acc.per_project \cup {d.project} |->
                                  IF p = d.project THEN new ELSE acc.per_project[p]],
                            per_operator |->
                              [p \in DOMAIN acc.per_operator \cup {d.project} |->
                                  IF p = d.project
                                  THEN MergeOps(Get(acc.per_operator, p, <<>>), used)
                                  ELSE acc.per_operator[p]]]
    /\ cur' = cur + 1
    /\ UNCHANGED <<prog, pc, logs, reports, drivervars>>

\* the three files of results/Lang/, written when some bug directory of the
\* project had a kill.csv
PatWrite ==
    /\ prog = "patches" /\ pc = "scan" /\ cur > Len(logs.dirs)
    /\ IF "Lang" \notin DOMAIN acc.per_project THEN UNCHANGED reports
       ELSE LET pr   == acc.per_project["Lang"]
                cnt  == Get(acc.per_operator, "Lang", <<>>)
                keys == SelectSeq(OpOrder, LAMBDA op : op \in DOMAIN cnt)
            IN  reports' =
                  [reports EXCEPT
                     !["per_bug_summary"] =
                        FileOf(SelectSeq(acc.per_bug_rows, LAMBDA r : r.project = "Lang")),
                     !["per_project_summary"] =
                        FileOf(<<[project |-> "Lang", bugs |-> pr.bugs, total |-> pr.total,
                                  plausible |-> pr.plausible, incorrect |-> pr.incorrect]>>),
                     !["operator_usage"] =
                        FileOf([i \in DOMAIN keys |->
                                  [project |-> "Lang", operator |-> keys[i],
                                   count |-> cnt[keys[i]]]])]
    /\ pc' = "done"
    /\ UNCHANGED <<prog, cur, logs, acc, drivervars>>

NextPatches ==
    \/ PatStart
    \/ PatDir
    \/ PatWrite

(* -------------------------------------------- summarize_mutation_by_project *)
\* a per-bug tuple (proj, bug, tool, tot, kld, srv)
PerBug(proj, bug, tool, tot, kld, srv) ==
    [project |-> proj, bug |-> bug, tool |-> tool,
     total |-> tot, killed |-> kld, survived |-> srv]

\* a count cell holds its number; a cell whose text int() rejects, such as
\* "n/a", is held as -1 and an empty cell as -2
NotNumber(c) == c = -1
Blank(c) == c = -2

\* the project cell of a row: the rows the drivers write carry the project
\* of their bug directory, a row edited by hand carries its own cell, which
\* may be empty; an empty bug cell is held as 0
ProjCell(d, r) == IF "project" \in DOMAIN r THEN r.project ELSE d.project

\* _infer_proj_bug_from_path: the pattern wants a path component logs or
\* LOGS, with a separator before it, above the <Project>-<bug> directory
InferFromPath(root, d) ==
    IF root \in {"/work/logs", "/work/LOGS"} THEN <<d.project, d.bug>> ELSE <<"", 0>>

\* one row of parse_mutation_summary_file: empty count cells count as 0, an
\* empty survived cell is computed from the other two, empty project and
\* bug cells are inferred from the path, and a row left without project or
\* bug is not kept
parse_row(root, d, r) ==
    LET tot  == IF Blank(r.total) THEN 0 ELSE r.total
        kld  == IF Blank(r.killed) THEN 0 ELSE r.killed
        srv  == IF Blank(r.survived) THEN (IF tot >= kld THEN tot - kld ELSE 0)
                ELSE r.survived
        inf  == InferFromPath(root, d)
        proj == IF ProjCell(d, r) # "" THEN ProjCell(d, r) ELSE inf[1]
        bug  == IF r.bug # 0 THEN r.bug ELSE inf[2]
    IN  IF proj # "" /\ bug # 0 THEN <<PerBug(proj, bug, r.engine, tot, kld, srv)>> ELSE <<>>

\* the tuples of one summary file of a bug directory
RECURSIVE ParseRows(_, _, _)
ParseRows(root, d, rows) ==
    IF rows = <<>> THEN <<>>
    ELSE parse_row(root, d, Head(rows)) \o ParseRows(root, d, Tail(rows))

parse_mutation_summary_file(root, d, file) == ParseRows(root, d, file.rows)

\* int() raises ValueError on a count cell of some row of the file
RaisesValueError(file) ==
    \E i \in DOMAIN file.rows :
        NotNumber(file.rows[i].total) \/ NotNumber(file.rows[i].killed)
            \/ NotNumber(file.rows[i].survived)

RECURSIVE scan_mutation_logs(_, _)
scan_mutation_logs(root, dirs) ==
    IF dirs = <<>> THEN <<>>
    ELSE LET d == Head(dirs)
         IN  (IF d.major.exists THEN parse_mutation_summary_file(root, d, d.major) ELSE <<>>)
             \o (IF d.pit.exists THEN parse_mutation_summary_file(root, d, d.pit) ELSE <<>>)
             \o scan_mutation_logs(root, Tail(dirs))

NoAgg == [bugs |-> {}, total |-> 0, killed |-> 0, survived |-> 0]

AddTo(A, t) ==
    [bugs |-> A.bugs \cup {t.bug}, total |-> A.total + t.total,
     killed |-> A.killed + t.killed, survived |-> A.survived + t.survived]

\* B = agg_all[proj]; B[...] += ...
AggAllStep_major_only(agg_all, t) ==
    IF t.tool = "MAJOR"
    THEN [p \in DOMAIN agg_all \cup {t.project} |->
            IF p = t.project THEN AddTo(Get(agg_all, p, NoAgg), t) ELSE agg_all[p]]
    ELSE agg_all

AggAllStep(agg_all, t) ==
    [p \in DOMAIN agg_all \cup {t.project} |->
        IF p = t.project THEN AddTo(Get(agg_all, p, NoAgg), t) ELSE agg_all[p]]

\* A = agg_by_tool[(proj, tool)]; A[...] += ...
AggByToolStep(agg_by_tool, t) ==
    LET key == <<t.project, t.tool>>
    IN  [k \in DOMAIN agg_by_tool \cup {key} |->
            IF k = key THEN AddTo(Get(agg_by_tool, k, NoAgg), t) ELSE agg_by_tool[k]]

RECURSIVE AggLoop(_, _)
AggLoop(per_bug, agg) ==
    IF per_bug = <<>> THEN agg
    ELSE AggLoop(Tail(per_bug),
                 [by_tool |-> AggByToolStep(agg.by_tool, Head(per_bug)),
                  all     |-> AggAllStep(agg.all, Head(per_bug))])

ProjRow(proj, tool, A) ==
    [project |-> proj, tool |-> tool, bugs_covered |-> Cardinality(A.bugs),
     mutants_total |-> A.total, killed |-> A.killed, survived |-> A.survived,
     kill_rate |-> Rate(A.killed, A.total, 1000)]

\* the (project, tool) keys in sorted() order
ToolKeyOrder ==
    <<<<"Lang", "MAJOR">>, <<"Lang", "PIT">>, <<"Math", "MAJOR">>, <<"Math", "PIT">>>>

\* sorted(per_bug, key = (project, int(bug), tool)), by insertion
BugKeyLeq(a, b) ==
    LET ra == CHOOSE i \in DOMAIN ProjOrder : ProjOrder[i] = a.project
        rb == CHOOSE i \in DOMAIN ProjOrder : ProjOrder[i] = b.project
    IN  \/ ra < rb
        \/ ra = rb /\ a.bug < b.bug
        \/ ra = rb /\ a.bug = b.bug /\ (a.tool = "MAJOR" \/ b.tool = "PIT")

RECURSIVE InsertSorted(_, _)
InsertSorted(s, t) ==
    IF s = <<>> THEN <<t>>
    ELSE IF BugKeyLeq(s[Len(s)], t) THEN Append(s, t)
    ELSE Append(InsertSorted(SubSeq(s, 1, Len(s) - 1), t), s[Len(s)])

RECURSIVE SortedBugs(_)
SortedBugs(per_bug) ==
    IF per_bug = <<>> THEN <<>>
    ELSE InsertSorted(SortedBugs(SubSeq(per_bug, 1, Len(per_bug) - 1)), per_bug[Len(per_bug)])

aggregate_mutation(per_bug) ==
    LET agg   == AggLoop(per_bug, [by_tool |-> <<>>, all |-> <<>>])
        tkeys == SelectSeq(ToolKeyOrder, LAMBDA k : k \in DOMAIN agg.by_tool)
        pkeys == SortedNames(DOMAIN agg.all)
        srt   == SortedBugs(per_bug)
    IN  [proj_rows |->
            [i \in DOMAIN tkeys |-> ProjRow(tkeys[i][1], tkeys[i][2], agg.by_tool[tkeys[i]])]
            \o [i \in DOMAIN pkeys |-> ProjRow(pkeys[i], "MAJOR+PIT", agg.all[pkeys[i]])],
         bug_rows |->
            [i \in DOMAIN srt |->
                [project |-> srt[i].project, bug |-> srt[i].bug, tool |-> srt[i].tool,
                 mutants_total |-> srt[i].total, killed |-> srt[i].killed,
                 survived |-> srt[i].survived,
                 kill_rate |-> Rate(srt[i].killed, srt[i].total, 1000)]]]

\* scan_apr over the bug directories that hold patches or result files:
\* apr is None for a directory that holds neither, else the numbers of
\* generated, plausible and correct patches found in it
RECURSIVE AprLoop(_, _)
AprLoop(dirs, agg) ==
    IF dirs = <<>> THEN agg
    ELSE LET d == Head(dirs)
         IN  IF d.apr = None THEN AprLoop(Tail(dirs), agg)
             ELSE LET A == Get(agg, d.project,
                               [bugs |-> {}, generated |-> 0, plausible |-> 0,
                                correct |-> 0, fixed_bugs |-> {}])
                      B == [bugs |-> A.bugs \cup {d.bug},
                            generated |-> A.generated + d.apr[1].gen,
                            plausible |-> A.plausible + d.apr[1].plausible,
                            correct |-> A.correct + d.apr[1].correct,
                            fixed_bugs |-> IF d.apr[1].correct > 0
                                           THEN A.fixed_bugs \cup {d.bug} ELSE A.fixed_bugs]
                  IN  AprLoop(Tail(dirs),
                              [p \in DOMAIN agg \cup {d.project} |->
                                  IF p = d.project THEN B ELSE agg[p]])

scan_apr(dirs) ==
    LET agg   == AprLoop(dirs, <<>>)
        pkeys == SortedNames(DOMAIN agg)
    IN  [i \in DOMAIN pkeys |->
            [project |-> pkeys[i], num_bugs |-> Cardinality(agg[pkeys[i]].bugs),
             num_generated_patches |-> agg[pkeys[i]].generated,
             num_plausible_patches |-> agg[pkeys[i]].plausible,
             num_correct_patches |-> agg[pkeys[i]].correct,
             num_fixed_bugs |-> Cardinality(agg[pkeys[i]].fixed_bugs)]]

\* a file is written only when there are rows for it
WriteIfRows(file, rows) == IF rows # <<>> THEN FileOf(rows) ELSE file

\* main, 1): the mutation summaries
\* parse_mutation_summary_file converts the counts of every row with int()
\* outside any try: a ValueError ends main before anything is written
SumMutation ==
    /\ prog = "summarize" /\ pc = "main"
    /\ IF \E i \in DOMAIN logs.dirs :
             \/ logs.dirs[i].major.exists /\ RaisesValueError(logs.dirs[i].major)
             \/ logs.dirs[i].pit.exists /\ RaisesValueError(logs.dirs[i].pit)
       THEN /\ pc' = "aborted"
            /\ UNCHANGED <<acc, reports>>
       ELSE LET res == aggregate_mutation(scan_mutation_logs(logs.root, logs.dirs))
            IN  /\ acc' = [acc EXCEPT !.proj_rows = res.proj_rows, !.bug_rows = res.bug_rows]
                /\ reports' = [reports EXCEPT
                      !["mutation_summary_by_project"] = WriteIfRows(@, res.proj_rows),
                      !["mutation_summary_by_bug"] = WriteIfRows(@, res.bug_rows)]
                /\ pc' = "apr"
    /\ UNCHANGED <<prog, cur, logs, drivervars>>

\* main, 2): the APR summary by project
SumApr ==
    /\ prog = "summarize" /\ pc = "apr"
    /\ LET rows == scan_apr(logs.dirs)
       IN  /\ acc' = [acc EXCEPT !.apr_rows = rows]
           /\ reports' = [reports EXCEPT !["apr_summary_by_project"] = WriteIfRows(@, rows)]
    /\ pc' = "join"
    /\ UNCHANGED <<prog, cur, logs, drivervars>>

\* main, 3): the join of the APR rows and the MAJOR+PIT rows
SumJoin ==
    /\ prog = "summarize" /\ pc = "join"
    /\ LET aprs == acc.apr_rows
           muts == SelectSeq(acc.proj_rows, LAMBDA r : r.tool = "MAJOR+PIT")
           Of(rows, p, field, dflt) ==
               IF \E i \in DOMAIN rows : rows[i].project = p
               THEN rows[CHOOSE i \in DOMAIN rows : rows[i].project = p][field]
               ELSE dflt
           names == SortedNames({aprs[i].project : i \in DOMAIN aprs}
                                \cup {muts[i].project : i \in DOMAIN muts})
           final == [i \in DOMAIN names |->
                       [project |-> names[i],
                        num_bugs |-> Of(aprs, names[i], "num_bugs", 0),
                        num_generated_patches |-> Of(aprs, names[i], "num_generated_patches", 0),
                        num_plausible_patches |-> Of(aprs, names[i], "num_plausible_patches", 0),
                        num_correct_patches |-> Of(aprs, names[i], "num_correct_patches", 0),
                        num_fixed_bugs |-> Of(aprs, names[i], "num_fixed_bugs", 0),
                        mutants_total_all |-> Of(muts, names[i], "mutants_total", 0),
                        killed_all |-> Of(muts, names[i], "killed", 0),
                        survived_all |-> Of(muts, names[i], "survived", 0),
                        kill_rate_all |-> Rate(Of(muts, names[i], "killed", 0),
                                               Of(muts, names[i], "mutants_total", 0), 1000)]]
       IN  reports' = [reports EXCEPT !["supervisor_table"] = WriteIfRows(@, final)]
    /\ pc' = "done"
    /\ UNCHANGED <<prog, cur, logs, acc, drivervars>>

NextSum ==
    \/ SumMutation
    \/ SumApr
    \/ SumJoin

(* ----------------------------------------- initial states of the reports *)
\* the driver part of the state, unused by the reporting scripts
InitNoDriver ==
    /\ buglist = "args"
    /\ xport = NoExport
    /\ bugs = <<>>
    /\ jobs = 1
    /\ summ = [b \in BugIds |-> [e \in Engines |-> Absent]]
    /\ summ0 = summ
    /\ wdir = [b \in BugIds |-> FALSE]
    /\ pc = "main"
    /\ cur = 1
    /\ wpc = [b \in BugIds |-> "queued"]
    /\ wres = [b \in BugIds |-> <<>>]
    /\ wloc = [b \in BugIds |-> <<>>]
    /\ calls = [b \in BugIds |-> <<>>]
    /\ all_rows = <<>>
    /\ outcsv = Absent

\* the operators of the lines of mutants.log, and a line without ":"
LineOps == {<<"ROR">>, <<"COR">>, <<"XYZ">>, <<"ORU", "x">>}
Malformed == <<"junk">>

\* the status cells of kill.csv
KillMarks == {"LIVE", "KILLED", "exc"}

\* mutants.log with the ids 1..n in order, line i with the operator f[i] or
\* malformed
MutantLog(n, f) ==
    FileOf([i \in 1..n |-> IF f[i] = Malformed THEN Malformed ELSE <<ToStr(i), f[i]>>])

\* kill.csv with a row for each id i that has a status g[i], in id order
RECURSIVE KillRows(_, _)
KillRows(n, g) ==
    IF n = 0 THEN <<>>
    ELSE KillRows(n - 1, g) \o (IF g[n] = None THEN <<>> ELSE <<<<ToStr(n), g[n][1]>>>>)

KillFile(n, g) == FileOf(KillRows(n, g))

MajorDir(mutants, kill) == LogDir("Lang", 1, mutants, kill, Absent, Absent, None)

\* a logs root that is missing, empty, or whose one directory lacks a file
EdgeLogs ==
    {NoLogs, LogsOf(<<>>),
     LogsOf(<<MajorDir(Absent, Absent)>>),
     LogsOf(<<MajorDir(FileOf(<<<<"1", <<"ROR">>>>>>), Absent)>>),
     LogsOf(<<MajorDir(Absent, FileOf(<<<<"1", "LIVE">>>>))>>)}

\* a logs root that is missing, empty, or holds the directory of one bug
SomeLogs ==
    {NoLogs, LogsOf(<<>>),
     LogsOf(<<MajorDir(Absent, Absent)>>),
     LogsOf(<<MajorDir(FileOf(<<<<"1", <<"ROR">>>>, <<"2", <<"XYZ">>>>>>),
                       FileOf(<<<<"1", "LIVE">>, <<"2", "KILLED">>>>))>>)}

\* results/Lang_apr_summary.csv as run_mutation_repair leaves it
SomeAprFiles ==
    {Absent, FileOf(<<>>), FileOf(<<AprRow(1, 3, 1, 1)>>)}

TableFiles == {"apr_summary", "table9", "table10", "table11"}
PatchFiles == {"per_bug_summary", "per_project_summary", "operator_usage"}
SumFiles == {"mutation_summary_by_project", "mutation_summary_by_bug",
             "apr_summary_by_project", "supervisor_table"}

\* generate_table.py started on the logs root l with the APR summary file a
TableStart(l, a) ==
    /\ prog = "table"
    /\ InitNoDriver
    /\ logs = l
    /\ acc = [projects |-> <<>>, details |-> <<>>]
    /\ reports = [n \in TableFiles |-> IF n = "apr_summary" THEN a ELSE Absent]

InitTable == \E l \in SomeLogs : \E a \in SomeAprFiles : TableStart(l, a)

\* generate_table.py on one bug directory with every mutants.log and kill.csv
\* up to the bound and no APR summary, or on a logs root that lacks something
InitTableAny ==
    \/ \E l \in EdgeLogs : \E a \in SomeAprFiles : TableStart(l, a)
    \/ \E n \in 0..MaxMutants :
       \E f \in [1..n -> LineOps \cup {Malformed}] :
       \E g \in [1..n -> {None} \cup {Some(m) : m \in KillMarks}] :
           TableStart(LogsOf(<<MajorDir(MutantLog(n, f), KillFile(n, g))>>), Absent)

\* the folders of one bug with a mutants.log of at most MaxCount lines, a
\* line naming ROR or an unmapped operator or being malformed, each mutant
\* without a kill.csv row or marked LIVE or KILLED
SmallDirs(proj, bug) ==
    UNION {{LogDir(proj, bug, MutantLog(n, f), KillFile(n, g), Absent, Absent, None) :
              f \in [1..n -> {<<"ROR">>, <<"XYZ">>, Malformed}],
              g \in [1..n -> {None, Some("LIVE"), Some("KILLED")}]} :
           n \in 0..MaxCount}

\* generate_table.py on a logs root with two bug folders, of one project or
\* of two, or on the roots of InitTableAny
InitTableTwo ==
    \/ InitTableAny
    \/ \E d1 \in SmallDirs("Lang", 1) :
       \E d2 \in SmallDirs("Lang", 2) \cup SmallDirs("Math", 1) :
           TableStart(LogsOf(<<d1, d2>>), Absent)

\* compute_patches.py started on the logs root l
PatchesStart(l) ==
    /\ prog = "patches"
    /\ InitNoDriver
    /\ logs = l
    /\ acc = NoPatchStats
    /\ reports = [n \in PatchFiles |-> Absent]

InitPatches == \E l \in SomeLogs : PatchesStart(l)

\* rows of a kill.csv that was not written by Major: padded or lower-case
\* status cells, an id that is no number, a row of one cell, an empty line,
\* an id of an earlier row with another status
RawKillRows ==
    {<<"1", "LIVE">>, <<"1", "KILLED">>, <<"2", " live ">>, <<"2", "LIVE ">>,
     <<"x", "LIVE">>, <<"3">>, <<>>}
RawKillFiles ==
    {FileOf(<<>>)} \cup {FileOf(<<a>>) : a \in RawKillRows}
    \cup {FileOf(<<a, b>>) : a \in RawKillRows, b \in RawKillRows}
    \cup {FileOf(<<a, b, c>>) : a \in RawKillRows, b \in RawKillRows, c \in RawKillRows}

InitPatchesAny ==
    \/ \E l \in EdgeLogs : PatchesStart(l)
    \/ \E k \in RawKillFiles : \E m \in {Absent, FileOf(<<<<"1", <<"ROR">>>>>>)} :
           PatchesStart(LogsOf(<<MajorDir(m, k)>>))
    \/ \E n \in 0..MaxMutants :
       \E f \in [1..n -> LineOps \cup {Malformed}] :
       \E g \in [1..n -> {None} \cup {Some(m) : m \in KillMarks}] :
           PatchesStart(LogsOf(<<MajorDir(MutantLog(n, f), KillFile(n, g))>>))

\* the (total, killed) pairs of the summary files tried
SomeCounts == {x \in (0..MaxCount) \X (0..MaxCount) : x[2] <= x[1]}

\* a summary file a driver run leaves in a bug directory, or none
SummaryFiles(e, b) ==
    {Absent} \cup {FileOf(<<SummaryRow(e, b, c[1], c[2], c[1] - c[2])>>) : c \in SomeCounts}

\* a summary file edited by hand: a total that is no number, alone or
\* followed by a good row
BadSummaryFiles(e, b) ==
    {FileOf(<<SummaryRow(e, b, -1, 0, 0)>>),
     FileOf(<<SummaryRow(e, b, -1, 0, 0), SummaryRow(e, b, 1, 1, 0)>>)}

\* a row with its own project cell, which may be empty
EditedRow(e, proj, b, t, k, s) ==
    [engine |-> e, project |-> proj, bug |-> b, total |-> t, killed |-> k, survived |-> s]

\* summary files not left by the drivers: a survived cell that disagrees
\* with the other two or is empty, empty project and bug cells, an empty
\* bug cell, a project cell that differs from the directory name
EditedSummaryFiles(e, b) ==
    {FileOf(<<SummaryRow(e, b, 1, 1, 1)>>),
     FileOf(<<SummaryRow(e, b, 1, 0, -2)>>),
     FileOf(<<EditedRow(e, "", 0, 1, 0, 1)>>),
     FileOf(<<EditedRow(e, "Lang", 0, 1, 1, 0)>>),
     FileOf(<<EditedRow(e, "Math", 2, 1, 0, 1)>>)}

\* the logs root as given on the command line: an absolute path ending in
\* logs, the relative path logs, a directory of another name
LogRoots == {"/work/logs", "logs", "/work/mutation_logs"}

\* what scan_apr finds in a bug directory: nothing, two patch files with a
\* plausible.txt and a correct.txt of one line each, or the same without
\* correct.txt
SomeApr == {None, Some([gen |-> 2, plausible |-> 1, correct |-> 1]),
            Some([gen |-> 2, plausible |-> 1, correct |-> 0])}

\* summarize_mutation_by_project.py started on the logs root l
SumStart(l) ==
    /\ prog = "summarize"
    /\ InitNoDriver
    /\ logs = l
    /\ acc = [proj_rows |-> <<>>, bug_rows |-> <<>>, apr_rows |-> <<>>]
    /\ reports = [n \in SumFiles |-> Absent]

\* a logs root holding any of Lang-1 and Math-1, with one summary row each
InitSum ==
    \E a \in SomeApr :
    \E d1 \in {<<>>, <<LogDir("Lang", 1, Absent, Absent,
                               FileOf(<<SummaryRow("MAJOR", 1, 1, 0, 1)>>), Absent, a)>>} :
    \E d2 \in {<<>>, <<LogDir("Math", 1, Absent, Absent, Absent,
                               FileOf(<<SummaryRow("PIT", 1, 1, 1, 0)>>), None)>>} :
        SumStart(LogsOf(d1 \o d2))

\* a logs root holding any of Lang-1, Lang-2 and Math-1 with any summary
\* files up to the bound
InitSumAny ==
    \E root \in LogRoots :
    \E m1 \in SummaryFiles("MAJOR", 1) \cup BadSummaryFiles("MAJOR", 1)
                \cup EditedSummaryFiles("MAJOR", 1) :
    \E p1 \in SummaryFiles("PIT", 1) :
    \E m2 \in SummaryFiles("MAJOR", 2) : \E p2 \in SummaryFiles("PIT", 2) :
    \E m3 \in SummaryFiles("MAJOR", 1) :
    \E a \in SomeApr : \E has \in SUBSET {"Lang-1", "Lang-2", "Math-1"} :
        /\ "Lang-1" \notin has => m1 = Absent /\ p1 = Absent /\ a = None
        /\ "Lang-2" \notin has => m2 = Absent /\ p2 = Absent
        /\ "Math-1" \notin has => m3 = Absent
        /\ root # "/work/logs" => m1 \in EditedSummaryFiles("MAJOR", 1)
        /\ SumStart(LogsAt(root,
              (IF "Lang-1" \in has
               THEN <<LogDir("Lang", 1, Absent, Absent, m1, p1, a)>> ELSE <<>>)
              \o (IF "Lang-2" \in has
                  THEN <<LogDir("Lang", 2, Absent, Absent, m2, p2, None)>> ELSE <<>>)
              \o (IF "Math-1" \in has
                  THEN <<LogDir("Math", 1, Absent, Absent, m3, Absent, None)>> ELSE <<>>)))

SpecTable == InitTableAny /\ [][NextTable]_vars
SpecTableTwo == InitTableTwo /\ [][NextTable]_vars
SpecPatches == InitPatchesAny /\ [][NextPatches]_vars
SpecAgg == InitSumAny /\ [][NextSum]_vars

(* ------------------------------------------------------- the whole pipeline *)
Init ==
    \/ InitMut
    \/ InitRep
    \/ InitPatches
    \/ InitTable
    \/ InitSum

Next == NextDrivers \/ NextPatches \/ NextTable \/ NextSum

Spec == Init /\ [][Next]_vars

(* ======================================================================== *)
(* Claims                                                                   *)
(* ======================================================================== *)
Consistent(r) == r.survived = Max(0, r.total - r.killed)

\* the summary rows this run has emitted: rows of per-bug summary files it
\* wrote, rows collected by main, rows of the combined file
EmittedRows ==
    UNION {{summ[b][e].rows[i] : i \in 1..Len(summ[b][e].rows)} :
              <<b, e>> \in {x \in BugIds \X Engines : summ[x[1]][x[2]] # summ0[x[1]][x[2]]}}
    \cup {all_rows[i] : i \in 1..Len(all_rows)}
    \cup {outcsv.rows[i] : i \in 1..Len(outcsv.rows)}

\* the row stored for bug b, engine e when the run started, if any
StoredRows0(b, e) ==
    IF summ0[b][e].rows = <<>> THEN {} ELSE {summ0[b][e].rows[1]}

\* C1 as stated: every emitted summary row, the rows re-loaded by the skip
\* path included, has survived = max(0, total - killed).
C1_EveryRowRecomputed ==
    prog = "mutation" => \A r \in EmittedRows : Consistent(r)

\* C1 amended: every row run_major or run_pit computes has
\* survived = max(0, total - killed), whatever the tool reported; a row that
\* does not is a row of a bug the skip path re-loaded, emitted exactly as it
\* was stored, with nothing executed for that bug.
C1_ComputedRowsRecomputed ==
    prog = "mutation" =>
        \A r \in EmittedRows :
            \/ Consistent(r)
            \/ /\ r \in StoredRows0(r.bug, r.engine)
               /\ calls[r.bug] = <<>>
               /\ \A e \in Engines : summ[r.bug][e] = summ0[r.bug][e]

\* C1 witness: the combined file holds a computed row whose tool reported
\* more killed than generated mutants, with survived 0, and a re-loaded row
\* is impossible here because commands ran for the bug.
C1_Witness ==
    /\ prog = "mutation" /\ pc = "done"
    /\ \E i \in 1..Len(outcsv.rows) :
          /\ outcsv.rows[i].killed > outcsv.rows[i].total
          /\ outcsv.rows[i].survived = 0
          /\ calls[outcsv.rows[i].bug] # <<>>

\* every requested bug had both summaries when the run started: both files,
\* each holding its summary row
AllSummarised ==
    \A b \in Requested : \A e \in Engines :
        summ0[b][e].exists /\ summ0[b][e].rows # <<>>

\* the rows of the combined file that belong to bug b, in file order
RECURSIVE RowsOfBug(_, _)
RowsOfBug(rows, b) ==
    IF rows = <<>> THEN <<>>
    ELSE IF Head(rows).bug = b THEN <<Head(rows)>> \o RowsOfBug(Tail(rows), b)
    ELSE RowsOfBug(Tail(rows), b)

\* C2: when the bug list could be read and every bug already has both
\* summaries (major_summary.csv and
\* pit_summary.csv, each with its summary row), a run of the driver (any
\* --jobs) executes no external command, changes no per-bug summary file,
\* ends normally, and the combined file holds for each bug exactly its two
\* stored rows.
C2_RerunExecutesNothing ==
    (prog = "mutation" /\ buglist # "nofile" /\ AllSummarised) =>
        /\ \A b \in BugIds : calls[b] = <<>>
        /\ summ = summ0
        /\ pc # "aborted"
        /\ \A b \in BugIds : wpc[b] # "raised"
        /\ pc = "done" =>
              /\ outcsv.exists
              /\ Len(outcsv.rows) = 2 * Len(bugs)
              /\ \A b \in Requested :
                    RowsOfBug(outcsv.rows, b) =
                        <<summ0[b]["MAJOR"].rows[1], summ0[b]["PIT"].rows[1]>>

\* C2 witness: a pooled re-run over two summarised bugs has finished.
C2_Witness ==
    /\ prog = "mutation" /\ AllSummarised /\ pc = "done"
    /\ Len(bugs) >= 2 /\ jobs >= 2
    /\ Len(outcsv.rows) = 2 * Len(bugs)

\* the rows of the results file for bug b
ResultRows(b) == RowsOfBug(outcsv.rows, b)

\* the results file has the rows the driver owes bug b: one per engine for
\* the mutation driver, one for the repair driver
HasItsRows(b) ==
    IF prog = "mutation"
    THEN {ResultRows(b)[i].engine : i \in 1..Len(ResultRows(b))} = Engines
    ELSE Len(ResultRows(b)) >= 1

\* C3: no exception leaves a per-bug worker function, and once the driver
\* has finished the results file has a row for every requested bug (per
\* engine for the mutation driver).
C3_NoExceptionLeavesWorker ==
    /\ \A b \in BugIds : wpc[b] # "raised"
    /\ pc = "done" => (outcsv.exists /\ \A b \in Requested : HasItsRows(b))

\* C4: the batch always completes: a driver that has stopped has attempted
\* every requested bug and has written the results file.
C4_BatchCompletes ==
    pc \in {"done", "aborted"} =>
        /\ pc = "done"
        /\ outcsv.exists
        /\ \A b \in Requested : wpc[b] = "collected"

\* the rows worker b returned are all in the results file on disk
RowsOnDisk(b) ==
    \A i \in 1..Len(wres[b]) :
        \E j \in 1..Len(outcsv.rows) : outcsv.rows[j] = wres[b][i]

IsPrefix(s, t) == Len(s) <= Len(t) /\ SubSeq(t, 1, Len(s)) = s

CheckoutOrCompileFailed(b) ==
    /\ calls[b] # <<>>
    /\ calls[b][Len(calls[b])].cmd \in {"checkout", "compile"}
    /\ calls[b][Len(calls[b])].rc # 0

ZeroFilled(r) ==
    IF prog = "mutation"
    THEN r.total = 0 /\ r.killed = 0 /\ r.survived = 0
    ELSE r.gen = 0 /\ r.plausible = 0 /\ r.correct = 0

\* C10: when checkout or compile exits non-zero for a bug, its processing
\* stops there, the worker does not raise, the rows it returns are zero-filled
\* and the finished driver has recorded a row for the bug.
C10_FailureGivesZeroRow ==
    \A b \in BugIds : CheckoutOrCompileFailed(b) =>
        /\ wpc[b] # "raised"
        /\ wpc[b] \in {"returned", "collected"}
        /\ wres[b] # <<>>
        /\ \A i \in 1..Len(wres[b]) : ZeroFilled(wres[b][i])
        /\ pc = "done" => HasItsRows(b)

\* the sum of field f over the rows
FieldSum(rows, f) == SumSeq([i \in DOMAIN rows |-> rows[i][f]])

\* C6: for every project, the "MAJOR+PIT" row aggregate_mutation produces is
\* the only one of the project, and its mutants_total, killed and survived are
\* the sums of these fields over the project's per-engine rows.
C6_CombinedRowIsSum ==
    (prog = "summarize" /\ pc # "main") =>
        \A p \in {ProjOrder[i] : i \in DOMAIN ProjOrder} :
            LET mine == SelectSeq(acc.proj_rows, LAMBDA r : r.project = p)
                eng  == SelectSeq(mine, LAMBDA r : r.tool # "MAJOR+PIT")
                both == SelectSeq(mine, LAMBDA r : r.tool = "MAJOR+PIT")
            IN  /\ Len(both) = (IF eng = <<>> THEN 0 ELSE 1)
                /\ \A i \in DOMAIN both :
                      /\ both[i].mutants_total = FieldSum(eng, "mutants_total")
                      /\ both[i].killed = FieldSum(eng, "killed")
                      /\ both[i].survived = FieldSum(eng, "survived")

\* C6 witness: Lang has a MAJOR row and a PIT row fed by two bugs, and a
\* combined row of three mutants of which some were killed and some survived.
C6_Witness ==
    /\ prog = "summarize" /\ pc = "done"
    /\ \E i \in DOMAIN acc.proj_rows : \E j \in DOMAIN acc.proj_rows :
       \E k \in DOMAIN acc.proj_rows :
          /\ acc.proj_rows[i].project = "Lang" /\ acc.proj_rows[i].tool = "MAJOR"
          /\ acc.proj_rows[i].bugs_covered = 2
          /\ acc.proj_rows[j].project = "Lang" /\ acc.proj_rows[j].tool = "PIT"
          /\ acc.proj_rows[j].mutants_total = 1
          /\ acc.proj_rows[k].project = "Lang" /\ acc.proj_rows[k].tool = "MAJOR+PIT"
          /\ acc.proj_rows[k].mutants_total = 3
          /\ acc.proj_rows[k].killed >= 1 /\ acc.proj_rows[k].survived >= 1
          /\ reports["mutation_summary_by_project"].rows = acc.proj_rows

\* the finished script's output files
OutputFiles == IF prog = "table" THEN TableFiles \ {"apr_summary"} ELSE DOMAIN reports

\* the project has no bug: an empty bug list for the drivers; for the
\* reporting scripts an existing logs root without bug directories and, for
\* generate_table, the header-only APR summary the repair driver left
ZeroBugs ==
    /\ bugs = <<>>
    /\ prog \in {"patches", "table", "summarize"} => logs = LogsOf(<<>>)
    /\ prog = "table" => reports["apr_summary"] = FileOf(<<>>)

\* C7: with zero bugs every stage ends without error and has written each of
\* its CSV files with the header row only.
C7_ZeroBugsHeaderOnly ==
    ZeroBugs =>
        /\ pc \notin {"aborted", "exit"}
        /\ \A b \in BugIds : wpc[b] # "raised"
        /\ pc = "done" =>
              IF prog \in {"mutation", "repair"}
              THEN outcsv = FileOf(<<>>)
              ELSE \A n \in OutputFiles : reports[n] = FileOf(<<>>)

KnownGroups == {KNOWN_OPS[i] : i \in DOMAIN KNOWN_OPS}

\* the group the claim gives an operator: its own name for the seven known
\* operators, "Other" for every other one
GroupOf(raw_op) ==
    IF raw_op[1] \in {"ROR", "COR", "LVR", "STD", "AOR", "SOR", "LOR"}
    THEN raw_op[1] ELSE "Other"

\* the lines of mutants.log that define a mutant of group g which kill.csv
\* does not mark killed
DefinedLive(d, g) ==
    {i \in DOMAIN d.mutants.rows :
        /\ Len(d.mutants.rows[i]) >= 2
        /\ d.mutants.rows[i][1] \notin killed_ids(d.kill)
        /\ GroupOf(d.mutants.rows[i][2]) = g}

\* C8: the operator counts parse_major_details returns for a log directory,
\* and the Table 11 row made of them, count each defined mutant that is not
\* marked killed once under its normalized group, only the eight groups occur,
\* and a killed mutant is counted nowhere.
C8_LiveOperatorCounts ==
    prog = "table" =>
        /\ \A i \in DOMAIN acc.details :
              LET ops == acc.details[i].live_ops
              IN  /\ DOMAIN ops \subseteq KnownGroups
                  /\ \A g \in KnownGroups :
                        /\ Get(ops, g, 0) = Cardinality(DefinedLive(logs.dirs[i], g))
                        /\ g \in DOMAIN ops => ops[g] > 0
        /\ \A r \in DOMAIN reports["table11"].rows :
              \A k \in DOMAIN KNOWN_OPS :
                  reports["table11"].rows[r].counts[k] =
                      Cardinality(DefinedLive(logs.dirs[1], KNOWN_OPS[k]))

\* mutants.log with 1:ROR, 2:COR, 3:XYZ
ExampleLog ==
    FileOf(<<<<"1", <<"ROR">>>>, <<"2", <<"COR">>>>, <<"3", <<"XYZ">>>>>>)

\* C8 witness: for 1:ROR, 2:COR, 3:XYZ with 2 KILLED the counts are
\* {ROR: 1, Other: 1} without a COR entry, and Table 11 is written.
C8_Witness ==
    /\ prog = "table" /\ pc = "done"
    /\ logs.dirs # <<>>
    /\ logs.dirs[1].mutants = ExampleLog
    /\ logs.dirs[1].kill = FileOf(<<<<"2", "KILLED">>>>)
    /\ Len(acc.details) = 1
    /\ DOMAIN acc.details[1].live_ops = {"ROR", "Other"}
    /\ acc.details[1].live_ops["ROR"] = 1
    /\ acc.details[1].live_ops["Other"] = 1
    /\ Len(reports["table11"].rows) = 1

\* the count operator_usage.csv gives group g
UsageCount(rows, g) ==
    FieldSum(SelectSeq(rows, LAMBDA r : r.operator = <<g>>), "count")

\* C9: the operator_usage.csv compute_patches writes for a bug directory with
\* mutants.log and kill.csv has rows for the eight operator groups only, and
\* counts under each group the mutants of the log that are not killed.
C9_OperatorUsageByGroup ==
    (/\ prog = "patches" /\ pc = "done"
     /\ logs.dirs # <<>>
     /\ logs.dirs[1].mutants.exists /\ logs.dirs[1].kill.exists) =>
        LET usage == reports["operator_usage"]
        IN  /\ usage.exists
            /\ \A i \in DOMAIN usage.rows :
                  \E g \in KnownGroups : usage.rows[i].operator = <<g>>
            /\ \A g \in KnownGroups :
                  UsageCount(usage.rows, g) = Cardinality(DefinedLive(logs.dirs[1], g))

\* C9, the example as the code treats it: with 1:ROR, 2:COR, 3:XYZ and a kill
\* file with 1 LIVE, 2 KILLED, 3 LIVE the file has the rows ROR 1 and XYZ 1.
C9_ExampleGivesXYZ ==
    /\ prog = "patches" /\ pc = "done"
    /\ logs.dirs # <<>>
    /\ logs.dirs[1].mutants = ExampleLog
    /\ logs.dirs[1].kill = FileOf(<<<<"1", "LIVE">>, <<"2", "KILLED">>, <<"3", "LIVE">>>>)
    /\ reports["operator_usage"].rows =
          <<[project |-> "Lang", operator |-> <<"ROR">>, count |-> 1],
            [project |-> "Lang", operator |-> <<"XYZ">>, count |-> 1]>>

(* ------------------------------------------------------------------ C11 *)
\* the (generated, killed) pair of the stdout summary lines, when both are there
StdoutPair(rep) ==
    IF rep.gen # None /\ rep.kill # None THEN Some(<<rep.gen[1], rep.kill[1]>>) ELSE None

\* the step left worker b running or returned, and engine e's summary file of
\* its bug holds one data row whose counts come from the artifact (kill.csv,
\* mutations.csv) or from the stdout lines when one of them is there, and are
\* zeros when there is nothing
SoftFailure(b, e, artifact, rep) ==
    /\ wpc'[b] # "raised"
    /\ summ'[bugs[b]][e].exists
    /\ Len(summ'[bugs[b]][e].rows) = 1
    /\ LET row == summ'[bugs[b]][e].rows[1]
       IN  /\ row.engine = e /\ row.bug = bugs[b]
           /\ row.survived = Max(0, row.total - row.killed)
           /\ (artifact # None \/ StdoutPair(rep) # None) =>
                 \/ /\ artifact # None
                    /\ row.total = artifact[1].n /\ row.killed = artifact[1].k
                 \/ /\ StdoutPair(rep) # None
                    /\ <<row.total, row.killed>> = StdoutPair(rep)[1]
           /\ (artifact = None /\ rep.gen = None /\ rep.kill = None) =>
                 row.total = 0 /\ row.killed = 0 /\ row.survived = 0

\* C11: a mutation command (Major or PIT) that exits non-zero is a soft
\* failure: the step of run_major / run_pit that ran it does not raise and
\* writes the engine's summary file with exactly one data row, whose counts
\* are those of the report artifact or of the stdout summary lines when
\* available and (0, 0, 0) when nothing can be recovered.
C11_NonZeroExitIsSoft ==
    [][\A b \in BugIds :
          /\ \A rep \in MajorReports :
                (rep.rc # 0 /\ run_major(b, rep)) =>
                    SoftFailure(b, "MAJOR", rep.killfile, rep)
          /\ \A rep \in PitReports :
                (rep.rc # 0 /\ run_pit(b, rep)) =>
                    SoftFailure(b, "PIT", rep.found, rep)]_vars

\* C11 witness: both mutation commands of a bug exited non-zero; the worker
\* returned, the MAJOR summary holds a zero row and the PIT summary the
\* counts of a report of one killed mutant.
C11_Witness ==
    /\ prog = "mutation" /\ wpc[1] = "returned"
    /\ \A i \in DOMAIN calls[1] : calls[1][i].cmd = "mutation" => calls[1][i].rc # 0
    /\ Cardinality({i \in DOMAIN calls[1] : calls[1][i].cmd = "mutation"}) = 2
    /\ summ[1]["MAJOR"].rows = <<SummaryRow("MAJOR", 1, 0, 0, 0)>>
    /\ summ[1]["PIT"].rows = <<SummaryRow("PIT", 1, 1, 1, 0)>>

(* ------------------------------------------------------------------ C12 *)
\* a complete pair of summaries: both files are there, each with a data row
CompletePair(dir) == \A e \in Engines : dir[e].exists /\ dir[e].rows # <<>>

\* the number of mutation commands run by worker call t
MutationRuns(t) == Cardinality({i \in DOMAIN calls[t] : calls[t][i].cmd = "mutation"})

\* C12: process_one_bug checks for existing summaries before any other work.
\* With a complete pair on disk (both files with a data row) it runs no
\* command, writes nothing and returns the two stored rows unchanged; in every
\* other case, one summary alone included, it does not skip: it goes through
\* checkout, compile and mutation, and a call that returns has run both
\* engines and returns the rows they wrote.
C12_SkipOnlyOnCompletePair ==
    prog = "mutation" =>
        \A t \in Tasks : wpc[t] # "queued" =>
            LET b == bugs[t]
            IN  IF CompletePair(summ0[b])
                THEN /\ calls[t] = <<>>
                     /\ wpc[t] \in {"returned", "collected"}
                     /\ wres[t] = <<summ0[b]["MAJOR"].rows[1], summ0[b]["PIT"].rows[1]>>
                     /\ summ[b] = summ0[b]
                ELSE /\ wpc[t] \in {"checkout_major", "compile_major", "mutate_major",
                                    "checkout_pit", "compile_pit", "mutate_pit",
                                    "returned", "raised", "collected"}
                     /\ (wpc[t] \in {"returned", "collected"} /\ wres[t] # <<>>) =>
                           /\ MutationRuns(t) = 2
                           /\ \A e \in Engines : Len(summ[b][e].rows) = 1
                           /\ wres[t] = <<summ[b]["MAJOR"].rows[1], summ[b]["PIT"].rows[1]>>
                     /\ (wpc[t] \in {"raised", "collected"} /\ wres[t] = <<>>) =>
                           MutationRuns(t) < 2
                     /\ wpc[t] \in {"checkout_major", "compile_major", "mutate_major"} =>
                           MutationRuns(t) = 0
                     /\ wpc[t] \in {"checkout_pit", "compile_pit", "mutate_pit"} =>
                           MutationRuns(t) = 1

\* C12 witness: a bug that had only its PIT summary was not skipped: both
\* engines ran and its MAJOR summary is now there.
C12_Witness ==
    /\ prog = "mutation"
    /\ \E t \in Tasks :
          /\ ~summ0[bugs[t]]["MAJOR"].exists
          /\ summ0[bugs[t]]["PIT"].rows # <<>>
          /\ wpc[t] = "returned"
          /\ MutationRuns(t) = 2
          /\ summ[bugs[t]]["MAJOR"].exists

(* ------------------------------------------------------------------ C16 *)
\* the test commands worker call t has run, in order
Tests(t) == SelectSeq(calls[t], LAMBDA c : c.cmd = "test")

\* the Major compile of worker call t succeeded
Compiled(t) == \E i \in DOMAIN calls[t] : calls[t][i].cmd = "compile" /\ calls[t][i].rc = 0

\* C16: process_bug runs the triggering test once per live mutant id, in the
\* order of the ids, each run with that one mutant active; a mutant counts as
\* plausible exactly when its run exits 0, and the Plausible_Patches of the
\* returned row is the number of live ids whose run exited 0 (none when the
\* bug was given up before validation).
C16_PlausibleIffTestPasses ==
    prog = "repair" =>
        \A t \in Tasks : wloc[t] # <<>> =>
            LET tests  == Tests(t)
                passed == {i \in DOMAIN tests : tests[i].rc = 0}
            IN  /\ Len(tests) <= Len(wloc[t].live_ids)
                /\ \A i \in DOMAIN tests : tests[i].mutant = wloc[t].live_ids[i]
                /\ wloc[t].plausible_count = Cardinality(passed)
                /\ wres[t] # <<>> =>
                      /\ wres[t][1].plausible = Cardinality(passed)
                      /\ Compiled(t) => Len(tests) = Len(wloc[t].live_ids)
                      /\ ~Compiled(t) => tests = <<>>

\* C16 witness: of the live mutants 1 and 3 the test failed with 1 and passed
\* with 3, and the bug's row says one plausible patch.
C16_Witness ==
    /\ prog = "repair"
    /\ \E t \in Tasks :
          /\ wpc[t] = "returned"
          /\ wloc[t].live_ids = <<"1", "3">>
          /\ [i \in DOMAIN Tests(t) |-> <<Tests(t)[i].rc, Tests(t)[i].mutant>>]
                = <<<<1, "1">>, <<0, "3">>>>
          /\ wres[t][1].plausible = 1

(* ------------------------------------------------------------------ C18 *)
\* parse_live_mutants found no mutants.log or no kill.csv for worker call t
NoLogsFor(t) ==
    wloc[t] # <<>> /\ wloc[t].live_ids = <<>> /\ wloc[t].total_gen = 0

\* C18: a missing input is never fatal to the batch: a driver that finds no
\* active-bugs.csv for its project neither ends by an exception nor exits
\* with an error, and a bug without mutants.log or kill.csv is passed over
\* without a command run or an exception.
C18_MissingInputNotFatal ==
    /\ buglist = "nofile" => pc \notin {"aborted", "exit"}
    /\ prog = "repair" =>
          \A t \in Tasks : NoLogsFor(t) =>
              /\ wpc[t] \in {"returned", "collected"}
              /\ calls[t] = <<>>

(* ------------------------------------------------------------------ C20 *)
\* worker call t has ended, by a return or by an exception
Ended(t) == wpc[t] \in {"returned", "raised", "collected"}

\* the last external command of worker call t
LastCall(t) == calls[t][Len(calls[t])]

\* C20: when the task of a worker that ran commands in its working directory
\* has ended, the directory is gone, on the successful path and on every
\* failure path, and no worker ends by an exception raised while the
\* directory was being deleted.
C20_WorkDirDeletedAtEnd ==
    \A t \in Tasks : (Ended(t) /\ calls[t] # <<>>) =>
        /\ ~wdir[bugs[t]]
        /\ (prog = "repair" /\ calls[t] # <<>> /\ LastCall(t).cmd = "test") =>
              wpc[t] # "raised"

\* C20, the failure path as the code treats it: the checkout of a repair
\* worker failed, the worker returned its row, and the directory it had
\* created for the checkout is still there.
C20_DirLeftAfterFailedCheckout ==
    /\ prog = "repair"
    /\ \E t \in Tasks :
          /\ wpc[t] = "returned"
          /\ calls[t] = <<[cmd |-> "checkout", rc |-> 1]>>
          /\ wdir[bugs[t]]

(* ---------------------------------------------------------------- C19 *)
\* the tasks a worker process is executing
InFlight == {t \in Tasks : wpc[t] \notin {"queued", "returned", "raised", "collected"}}

\* C19: no two tasks that are in flight at the same time belong to the same
\* bug, that is, to the same working directory <project>-<bug>-fixed and the
\* same output files under logs/<project>-<bug>.
C19_NoSharedDiskState ==
    \A s \in InFlight : \A t \in InFlight : s # t => bugs[s] # bugs[t]

\* two pool workers are past the checkout of the same bug, in one directory
C19_TwoWorkersOneDir ==
    /\ pc = "pool"
    /\ \E s \in InFlight : \E t \in InFlight :
          /\ s # t
          /\ bugs[s] = bugs[t]
          /\ calls[s] # <<>>
          /\ calls[t] # <<>>
          /\ wdir[bugs[s]]

(* ---------------------------------------------------------------- C15 *)
\* the data rows of a kill file that have two cells and a numeric id
GoodKillRows(rows) == {i \in 1..Len(rows) : Len(rows[i]) >= 2 /\ ToInt(rows[i][1]) # None}

\* the last good row with the id m
LastKillRow(rows, m) ==
    CHOOSE i \in GoodKillRows(rows) :
        /\ ToInt(rows[i][1]) = Some(m)
        /\ \A j \in GoodKillRows(rows) : ToInt(rows[j][1]) = Some(m) => j <= i

\* C15: for the kill file of every bug directory compute_patches has read,
\* read_kill_file gave a mapping of at most as many entries as the file has
\* data rows, whose keys are the integer ids of the rows with two cells and
\* a numeric id and whose values are the stripped, upper-cased status of the
\* last such row of the id; the per-bug row counts that mapping; and a
\* missing mutants.log gives the empty mapping.
C15_KillFileMapping ==
    (prog = "patches" /\ pc \in {"scan", "done"}) =>
        \A c \in 1..(cur - 1) :
            LET d  == logs.dirs[c]
                st == read_kill_file(d.kill)
                rs == d.kill.rows
            IN  /\ d.kill.exists =>
                      /\ Cardinality(DOMAIN st) <= Len(rs)
                      /\ DOMAIN st = {ToInt(rs[i][1])[1] : i \in GoodKillRows(rs)}
                      /\ \A m \in DOMAIN st :
                             st[m] = Upper(Strip(rs[LastKillRow(rs, m)][2]))
                      /\ \E r \in 1..Len(acc.per_bug_rows) :
                             /\ acc.per_bug_rows[r].bug = d.bug
                             /\ acc.per_bug_rows[r].total = Cardinality(DOMAIN st)
                             /\ acc.per_bug_rows[r].plausible =
                                   Cardinality({m \in DOMAIN st : st[m] = "LIVE"})
                /\ ~d.mutants.exists => read_mutants_log(d.mutants) = <<>>

\* a kill file with a repeated id, a padded lower-case status and a row
\* that is dropped has been read, with no mutants.log beside it
C15_Witness ==
    /\ prog = "patches" /\ pc = "done" /\ logs.exists /\ Len(logs.dirs) = 1
    /\ logs.dirs[1].kill.rows = <<<<"1", "LIVE">>, <<"1", "KILLED">>, <<"2", " live ">>>>
    /\ ~logs.dirs[1].mutants.exists
    /\ Len(acc.per_bug_rows) = 1
    /\ acc.per_bug_rows[1].total = 2
    /\ acc.per_bug_rows[1].plausible = 1

(* ---------------------------------------------------------------- C17 *)
\* the rows process_bug has returned and main has appended
RepairRows ==
    IF prog # "repair" THEN {}
    ELSE {wres[t][1] : t \in {u \in Tasks : wres[u] # <<>>}}
         \cup {outcsv.rows[i] : i \in 1..Len(outcsv.rows)}

\* the bug directories of project n that hold APR results
AprDirs(n) == {i \in 1..Len(logs.dirs) : logs.dirs[i].project = n /\ logs.dirs[i].apr # None}

RECURSIVE SumOver(_, _)
SumOver(S, f) ==
    IF S = {} THEN 0
    ELSE LET x == CHOOSE y \in S : TRUE IN f[x] + SumOver(S \ {x}, f)

\* process_bug's rows have equal counters and load_apr_results keeps them
C17_PlaceholderInRepairAndTable ==
    /\ \A r \in RepairRows : r.correct = r.plausible
    /\ (prog = "table" /\ pc \in {"save9", "save10", "save11", "done"}) =>
          \A n \in DOMAIN acc.projects :
             /\ acc.projects[n].apr_correct = acc.projects[n].apr_plausible
             /\ (n = "Lang" /\ reports["apr_summary"].exists) =>
                   acc.projects[n].apr_plausible =
                      SumSeq([i \in DOMAIN reports["apr_summary"].rows |->
                                 reports["apr_summary"].rows[i].plausible])

\* C17 (amended): every row process_bug returns has Correct_Patches =
\* Plausible_Patches and load_apr_results keeps the two sums equal, while
\* scan_apr reports, per project, the number of correct patches and the
\* number of plausible patches as counted separately in the bug directories.
C17_Amended ==
    /\ C17_PlaceholderInRepairAndTable
    /\ (prog = "summarize" /\ pc \in {"join", "done"}) =>
          \A i \in DOMAIN acc.apr_rows :
             LET r == acc.apr_rows[i]
                 D == AprDirs(r.project)
             IN  /\ r.num_plausible_patches =
                       SumOver(D, [j \in D |-> logs.dirs[j].apr[1].plausible])
                 /\ r.num_correct_patches =
                       SumOver(D, [j \in D |-> logs.dirs[j].apr[1].correct])

\* C17: in every script the correct-patch counter equals the plausible-patch
\* counter: in the rows of process_bug, in the sums of load_apr_results and
\* in the per-project rows of scan_apr.
C17_CorrectEqualsPlausible ==
    /\ C17_PlaceholderInRepairAndTable
    /\ (prog = "summarize" /\ pc \in {"join", "done"}) =>
          \A i \in DOMAIN acc.apr_rows :
             acc.apr_rows[i].num_correct_patches = acc.apr_rows[i].num_plausible_patches

\* a repair run has ended after writing a row with a plausible patch
C17_Witness ==
    /\ prog = "repair"
    /\ pc = "done"
    /\ \E i \in 1..Len(outcsv.rows) :
          outcsv.rows[i].plausible > 0 /\ outcsv.rows[i].correct = outcsv.rows[i].plausible

(* ---------------------------------------------------------------- C14 *)
\* the rows of the summary files under the logs root whose counts are numbers
GoodSummaryRows ==
    UNION {{<<logs.dirs[i].project, r>> :
               r \in {f.rows[j] : j \in {k \in DOMAIN f.rows :
                          ~NotNumber(f.rows[k].total) /\ ~NotNumber(f.rows[k].killed)
                              /\ ~NotNumber(f.rows[k].survived)}}} :
           <<i, f>> \in {x \in (DOMAIN logs.dirs) \X
                                {logs.dirs[d].major : d \in DOMAIN logs.dirs}
                                \cup (DOMAIN logs.dirs) \X
                                {logs.dirs[d].pit : d \in DOMAIN logs.dirs} :
                            x[2].exists /\ x[2] \in {logs.dirs[x[1]].major, logs.dirs[x[1]].pit}}}

\* C14: the summary script never ends by an exception over a malformed
\* summary row: the row is skipped and every row with numeric counts is in
\* the per-bug table once the mutation summaries have been read.
C14_MalformedRowsSkipped ==
    prog = "summarize" =>
        /\ pc # "aborted"
        /\ pc \in {"apr", "join", "done"} =>
              \A g \in GoodSummaryRows :
                 \E i \in DOMAIN acc.bug_rows :
                    /\ acc.bug_rows[i].project = g[1]
                    /\ acc.bug_rows[i].bug = g[2].bug
                    /\ acc.bug_rows[i].tool = g[2].engine
                    /\ acc.bug_rows[i].mutants_total = g[2].total

\* main has ended by the ValueError of a summary file that also held a good
\* row, with no report written
C14_RaisedOverOneCell ==
    /\ prog = "summarize"
    /\ pc = "aborted"
    /\ GoodSummaryRows # {}
    /\ \A n \in DOMAIN reports : ~reports[n].exists

(* ---------------------------------------------------------------- C13 *)
\* how often the external checkout was invoked for the directory of bug i
\* by the workers of the mutation driver, c being their calls
CountCmd(s, P(_)) == Cardinality({j \in DOMAIN s : P(s[j])})

RECURSIVE MutCheckouts(_, _, _)
MutCheckouts(c, i, t) ==
    IF t = 0 THEN 0
    ELSE MutCheckouts(c, i, t - 1)
         + (IF t <= Len(bugs) /\ bugs[t] = i
            THEN CountCmd(c[t], LAMBDA x : x.cmd = "checkout") ELSE 0)

\* how often it was invoked for revision r of bug i by the export script
ExpCheckouts(x, i, r) ==
    CountCmd(x.ran, LAMBDA e : e.cmd = "checkout" /\ e.bug = i /\ e.rev = r)

\* C13: a call of checkout_rev or checkout invokes the external checkout if
\* and only if the destination directory does not exist; when it exists,
\* partial or not, the call changes nothing on disk and the caller goes on
\* as after a checkout; and no step at all invokes the checkout for a
\* directory that exists, so it is invoked at most once while it remains.
C13_CheckoutIffAbsent ==
    [][/\ \A b \in BugIds : \A rc \in ExitCodes : \A left \in BOOLEAN :
            checkout_rev(b, rc, left) =>
               /\ (calls'[b] # calls[b]) <=> ~wdir[bugs[b]]
               /\ wdir[bugs[b]] =>
                     wdir' = wdir /\ wpc'[b] \in {"compile_major", "compile_pit"}
       /\ \A rc \in ExitCodes : \A left \in BOOLEAN :
            checkout(rc, left) =>
               LET rev == IF pc = "checkout_b" THEN "b" ELSE "f"
               IN  /\ (xport'.ran # xport.ran) <=> ~xport.dirs[bugs[cur]][rev]
                   /\ xport.dirs[bugs[cur]][rev] =>
                         xport' = xport /\ pc' \in {"checkout_f", "diff"}
       /\ prog = "mutation" =>
            \A i \in BugIds :
               wdir[i] => MutCheckouts(calls', i, MaxBugs) = MutCheckouts(calls, i, MaxBugs)
       /\ prog = "export" =>
            \A i \in BugIds : \A r \in Revs :
               xport.dirs[i][r] => ExpCheckouts(xport', i, r) = ExpCheckouts(xport, i, r)
      ]_vars

\* the export script, given its project twice, failed to check out the
\* buggy revision of a bug in the first pass, found the partial directory in
\* the second and went on to diff it, with that one checkout invoked
C13_Witness ==
    /\ prog = "export"
    /\ pc = "done"
    /\ \E i \in BugIds :
          /\ xport.dirs[i]["b"]
          /\ ExpCheckouts(xport, i, "b") = 1
          /\ \E j \in DOMAIN xport.ran : \E k \in DOMAIN xport.ran :
                /\ j < k
                /\ xport.ran[j] = [cmd |-> "checkout", bug |-> i, rev |-> "b", rc |-> 1]
                /\ xport.ran[k].cmd = "diff"
                /\ xport.ran[k].bug = i

(* ---------------------------------------------------------------- C21 *)
\* the external steps that may directly follow step x in one worker call
FollowsIn(x, y) ==
    IF prog = "repair"
    THEN \/ x.cmd = "checkout" /\ x.rc = 0 /\ y.cmd = "export"
         \/ x.cmd = "export" /\ y.cmd = "compile"
         \/ x.cmd = "compile" /\ x.rc = 0 /\ y.cmd = "test"
         \/ x.cmd = "test" /\ y.cmd = "test"
    ELSE \/ x.cmd = "checkout" /\ x.rc = 0 /\ y.cmd = "compile"
         \/ x.cmd = "compile" /\ x.rc = 0 /\ y.cmd \in {"mutation", "export"}
         \/ x.cmd = "export" /\ y.cmd = "mutation"
         \/ x.cmd = "mutation" /\ y.cmd \in {"checkout", "compile"}

Collects(t) ==
    /\ wpc[t] = "returned"
    /\ wpc' = [wpc EXCEPT ![t] = "collected"]

BugRowsOf(n, tool) ==
    {i \in DOMAIN acc.bug_rows :
        acc.bug_rows[i].project = n /\ (tool = "MAJOR+PIT" \/ acc.bug_rows[i].tool = tool)}

\* C23: once the summary script has read the per-bug summary files, every
\* per-bug tuple has survived = max(0, total - killed), whatever the file's
\* survived cell holds, and every project row has survived = the sum of
\* max(0, total - killed) over its tuples.
C23_SurvivedNeverTrusted ==
    (prog = "summarize" /\ pc \in {"apr", "join", "done"}) =>
        /\ \A i \in DOMAIN acc.bug_rows :
              acc.bug_rows[i].survived =
                  Max(0, acc.bug_rows[i].mutants_total - acc.bug_rows[i].killed)
        /\ \A i \in DOMAIN acc.proj_rows :
              LET B == BugRowsOf(acc.proj_rows[i].project, acc.proj_rows[i].tool)
              IN  acc.proj_rows[i].survived =
                     SumOver(B, [j \in B |->
                        Max(0, acc.bug_rows[j].mutants_total - acc.bug_rows[j].killed)])

\* the file of Lang-1 says total 1, killed 1, survived 1, and the per-bug
\* table and the project row say survived 1 as well
C23_StoredSurvivedKept ==
    /\ prog = "summarize" /\ pc = "done"
    /\ logs.dirs # <<>>
    /\ logs.dirs[1].major = FileOf(<<SummaryRow("MAJOR", 1, 1, 1, 1)>>)
    /\ \E i \in DOMAIN acc.bug_rows :
          /\ acc.bug_rows[i].mutants_total = 1
          /\ acc.bug_rows[i].killed = 1
          /\ acc.bug_rows[i].survived = 1
    /\ \E i \in DOMAIN acc.proj_rows :
          acc.proj_rows[i].survived > acc.proj_rows[i].mutants_total - acc.proj_rows[i].killed

(* ---------------------------------------------------------------- C24 *)
\* the rows of the summary files under the logs root, each with the project
\* and bug the aggregator should file it under: its own cell when filled,
\* else the one of the directory name
ExpectedTuples ==
    UNION {{[project |-> IF ProjCell(logs.dirs[i], f.rows[j]) # ""
                         THEN ProjCell(logs.dirs[i], f.rows[j]) ELSE logs.dirs[i].project,
             bug |-> IF f.rows[j].bug # 0 THEN f.rows[j].bug ELSE logs.dirs[i].bug,
             tool |-> f.rows[j].engine] : j \in DOMAIN f.rows} :
           <<i, f>> \in {x \in (DOMAIN logs.dirs) \X
                                ({logs.dirs[d].major : d \in DOMAIN logs.dirs}
                                 \cup {logs.dirs[d].pit : d \in DOMAIN logs.dirs}) :
                            x[2].exists /\ x[2] \in {logs.dirs[x[1]].major, logs.dirs[x[1]].pit}}}

\* C24: once the summary script has read the summary files, every row is
\* in the per-bug table under its own project and bug cells where they are
\* filled and under the project and bug of its directory <Project>-<bug>
\* where they are blank, whatever logs root was given.
C24_BlankCellsInferred ==
    (prog = "summarize" /\ pc \in {"apr", "join", "done"}) =>
        \A e \in ExpectedTuples :
           \E i \in DOMAIN acc.bug_rows :
              /\ acc.bug_rows[i].project = e.project
              /\ acc.bug_rows[i].bug = e.bug
              /\ acc.bug_rows[i].tool = e.tool

\* given the relative root logs, the script has ended without any row for
\* the file of Lang-1, whose one row has blank project and bug cells
C24_BlankRowDropped ==
    /\ prog = "summarize" /\ pc = "done"
    /\ logs.root = "logs"
    /\ Len(logs.dirs) = 1
    /\ logs.dirs[1].major = FileOf(<<EditedRow("MAJOR", "", 0, 1, 0, 1)>>)
    /\ acc.bug_rows = <<>>
    /\ ~reports["mutation_summary_by_bug"].exists

(* ----------------------------------------------------------------- C25 *)
\* killed and survived of a bug folder as compute_patches reports them:
\* Incorrect and Plausible(LIVE)
PatchKilled(d) ==
    LET status == read_kill_file(d.kill)
    IN  Cardinality({m \in DOMAIN status : status[m] # "LIVE"})
PatchSurvived(d) ==
    LET status == read_kill_file(d.kill)
    IN  Cardinality({m \in DOMAIN status : status[m] = "LIVE"})

\* C25: for every bug folder with a mutants.log and a kill.csv that
\* generate_table has read, the killed and survived counts of
\* parse_major_details equal those of run_major's count over kill.csv, those
\* that parse_live_mutants implies (lines minus live ids, live ids), and
\* Incorrect and Plausible(LIVE) of compute_patches.
C25_SameKilledEverywhere ==
    prog = "table" =>
        \A i \in DOMAIN acc.details :
            LET d == logs.dirs[i]
                r == acc.details[i]
                m == kill_csv_counts(d.kill)
                c == parse_live_mutants(d)
            IN  d.mutants.exists /\ d.kill.exists =>
                    /\ r.killed = m[2] /\ r.survived = m[3]
                    /\ r.killed = c.total_gen - Len(c.live_ids)
                    /\ r.survived = Len(c.live_ids)
                    /\ r.killed = PatchKilled(d) /\ r.survived = PatchSurvived(d)

\* generate_table has read a folder of one mutant whose kill.csv row says
\* exc: it counts the mutant killed, as parse_live_mutants and
\* compute_patches do, and run_major's count over kill.csv has it survived
C25_ExcSplitsComponents ==
    /\ prog = "table" /\ Len(acc.details) = 1
    /\ logs.dirs[1].mutants = FileOf(<<<<"1", <<"ROR">>>>>>)
    /\ logs.dirs[1].kill = FileOf(<<<<"1", "exc">>>>)
    /\ acc.details[1].killed = 1 /\ acc.details[1].survived = 0
    /\ parse_live_mutants(logs.dirs[1]).live_ids = <<>>
    /\ PatchKilled(logs.dirs[1]) = 1
    /\ kill_csv_counts(logs.dirs[1].kill) = <<1, 0, 1>>

(* ----------------------------------------------------------------- C26 *)
\* C26: for every bug folder generate_table has read, the total and
\* survived counts of parse_major_details equal Gen_Patches (total_gen) and
\* the number of live candidates of parse_live_mutants on the same folder,
\* whatever the lines of mutants.log and whether or not kill.csv exists.
C26_GenPatchesEqualsMutants ==
    prog = "table" =>
        \A i \in DOMAIN acc.details :
            LET c == parse_live_mutants(logs.dirs[i])
            IN  /\ acc.details[i].total = c.total_gen
                /\ acc.details[i].survived = Len(c.live_ids)

\* generate_table has read a folder with a mutants.log of one mutant and no
\* kill.csv: it counts one surviving mutant, and parse_live_mutants yields
\* no candidate and Gen_Patches 0
C26_NoKillFile ==
    /\ prog = "table" /\ Len(acc.details) = 1
    /\ logs.dirs[1].mutants = FileOf(<<<<"1", <<"ROR">>>>>>)
    /\ ~logs.dirs[1].kill.exists
    /\ acc.details[1].total = 1 /\ acc.details[1].survived = 1
    /\ parse_live_mutants(logs.dirs[1]) = [live_ids |-> <<>>, total_gen |-> 0]

(* ----------------------------------------------------------------- C27 *)
\* the sum of the counts of a live_ops dictionary
OpsTotal(ops) == SumOver(DOMAIN ops, ops)

\* C27: every result of parse_major_details has total = killed + survived
\* and live-operator counts summing to survived; every ProjectStats has
\* total_mutants = killed_mutants + survived_mutants and live_ops summing to
\* survived_mutants; every Table 10 row has Total = Plausible(LIVE) +
\* Incorrect(KILLED); every Table 11 row sums to Plausible(LIVE) of the
\* Table 10 row of its project.
C27_CountsConserved ==
    prog = "table" =>
        /\ \A i \in DOMAIN acc.details :
              LET r == acc.details[i]
              IN  /\ r.total = r.killed + r.survived
                  /\ OpsTotal(r.live_ops) = r.survived
        /\ \A n \in DOMAIN acc.projects :
              LET p == acc.projects[n]
              IN  /\ p.total_mutants = p.killed_mutants + p.survived_mutants
                  /\ OpsTotal(p.live_ops) = p.survived_mutants
        /\ \A i \in DOMAIN reports["table10"].rows :
              LET r == reports["table10"].rows[i]
              IN  r.mutants = r.live + r.killed
        /\ \A i \in DOMAIN reports["table11"].rows :
              /\ i \in DOMAIN reports["table10"].rows
              /\ reports["table10"].rows[i].project = reports["table11"].rows[i].project
              /\ SumSeq(reports["table11"].rows[i].counts) = reports["table10"].rows[i].live

\* two folders of Lang, each with one surviving ROR mutant: the tables are
\* written, Table 10 has 2 = 2 + 0 and Table 11 has ROR = 2
C27_Witness ==
    /\ prog = "table" /\ pc = "done"
    /\ Len(logs.dirs) = 2
    /\ acc.details[1].live_ops = [x \in {"ROR"} |-> 1]
    /\ acc.details[2].live_ops = [x \in {"ROR"} |-> 1]
    /\ Len(reports["table10"].rows) = 1
    /\ reports["table10"].rows[1].mutants = 2
    /\ reports["table10"].rows[1].live = 2
    /\ reports["table10"].rows[1].killed = 0
    /\ reports["table11"].rows[1].counts[1] = 2

(* ----------------------------------------------------------------- C28 *)
\* the mutant ids named by the words of an ANT_ARGS value, in order
MutantsNamed(ant_args) ==
    LET ws == SelectSeq(ant_args, LAMBDA w : "id" \in DOMAIN w)
    IN  [i \in DOMAIN ws |-> ws[i].id]

\* C28: in process_bug the env11 that validate_mutant is given stays as
\* _mk_env made it, and every test command is run with an ANT_ARGS naming
\* exactly one mutant, the one under validation.
C28_OneMutantPerTest ==
    prog = "repair" =>
        \A t \in Tasks : wloc[t] # <<>> =>
            /\ wloc[t].env11 = mk_env
            /\ \A i \in DOMAIN Tests(t) :
                  MutantsNamed(Tests(t)[i].ant_args) = <<wloc[t].live_ids[i]>>

\* a call of process_bug has validated mutant 1 and then mutant 3; the
\* second test ran with the inherited word and the word for mutant 3 only
C28_Witness ==
    \E t \in Tasks :
        /\ prog = "repair" /\ wloc[t] # <<>>
        /\ Len(Tests(t)) = 2
        /\ Tests(t)[1].ant_args = <<OtherArg, MutantArg("1")>>
        /\ Tests(t)[2].ant_args = <<OtherArg, MutantArg("3")>>

(* ----------------------------------------------------------------- C29 *)
\* worker call t has just been entered with an empty candidate list
EntersWithoutCandidates(t) ==
    wloc[t] = <<>> /\ wloc'[t] # <<>> /\ wloc'[t].live_ids = <<>>

\* C29: a call of process_bug whose candidate list is empty runs no
\* command, leaves every working directory as it is, and returns the row
\* (bug, total_gen, 0, 0); and every row process_bug returns has
\* 0 <= Plausible_Patches <= number of live candidates <= Gen_Patches.
C29_NoCandidatesNoWork ==
    /\ [](prog = "repair" =>
            \A t \in Tasks : wloc[t] # <<>> =>
                /\ wloc[t].live_ids = <<>> =>
                      /\ calls[t] = <<>>
                      /\ wpc[t] \in {"returned", "collected"}
                      /\ wres[t] = <<AprRow(bugs[t], wloc[t].total_gen, 0, 0)>>
                /\ wres[t] # <<>> =>
                      /\ wres[t][1].gen = wloc[t].total_gen
                      /\ 0 <= wres[t][1].plausible
                      /\ wres[t][1].plausible <= Len(wloc[t].live_ids)
                      /\ Len(wloc[t].live_ids) <= wres[t][1].gen)
    /\ [][prog = "repair" =>
            \A t \in Tasks : EntersWithoutCandidates(t) => wdir' = wdir]_vars

\* a directory left by an earlier run exists, the call for its bug found
\* one mutant, killed: it has returned (bug, 1, 0, 0), no command was run
\* and the directory is still there
C29_Witness ==
    \E t \in Tasks :
        /\ prog = "repair" /\ wloc[t] # <<>>
        /\ wloc[t].live_ids = <<>> /\ wloc[t].total_gen = 1
        /\ wdir[bugs[t]]
        /\ calls[t] = <<>>
        /\ wres[t] = <<AprRow(bugs[t], 1, 0, 0)>>

(* ----------------------------------------------------------------- C30 *)
\* this step runs the diff command for bug b, which exits with rc
DiffRuns(b, rc) ==
    /\ Len(xport'.ran) = Len(xport.ran) + 1
    /\ xport'.ran[Len(xport'.ran)] = [cmd |-> "diff", bug |-> b, rev |-> "bf", rc |-> rc]

\* C30: without --force no step changes a .diff file that exists, and no
\* diff command is run for its bug; a step changes a .diff file only by
\* writing the output of a diff command that exited 0 or 1, with --force or
\* when the file was absent; a diff command that exits otherwise leaves
\* every .diff file as it was, absent ones absent.
C30_DiffWrittenOnlyOnSuccess ==
    [][prog = "export" =>
         \A b \in BugIds :
            /\ (~xport.force /\ xport.diffs[b] # "absent") =>
                  /\ xport'.diffs[b] = xport.diffs[b]
                  /\ \A rc \in DiffCodes : ~DiffRuns(b, rc)
            /\ xport'.diffs[b] # xport.diffs[b] =>
                  /\ xport'.diffs[b] = "new"
                  /\ xport.force \/ xport.diffs[b] = "absent"
                  /\ DiffRuns(b, 0) \/ DiffRuns(b, 1)
            /\ (\E rc \in DiffCodes \ {0, 1} : DiffRuns(b, rc)) =>
                  xport'.diffs = xport.diffs]_vars

\* a run without --force over the bugs 1 and 2 has ended: the diff of bug 1,
\* left by an earlier run, is as it was and no diff command was run for it;
\* the diff command of bug 2 exited 2 and there is no file for bug 2
C30_Witness ==
    /\ prog = "export" /\ pc = "done"
    /\ ~xport.force
    /\ bugs = <<1, 2>>
    /\ xport.diffs[1] = "old" /\ xport.diffs[2] = "absent"
    /\ \E i \in DOMAIN xport.ran : xport.ran[i].cmd = "diff" /\ xport.ran[i].bug = 2
                                    /\ xport.ran[i].rc = 2
    /\ \A i \in DOMAIN xport.ran : ~(xport.ran[i].cmd = "diff" /\ xport.ran[i].bug = 1)
====
